---- MODULE Spec2Model ----
(***************************************************************************)
(* Model of the Simple-Multiplayer server (src/Source/server.py): the      *)
(* tech-unlock vote coordinator (VOTES, vote_start / vote_cast /           *)
(* vote_status / vote_cancel), the presence store that sizes the quorum,   *)
(* and the scenario-module uploads SciencePoints, TechTree and             *)
(* ScienceArchives.                                                        *)
(*                                                                         *)
(* Text is modelled as sequences of one-character strings so that the      *)
(* server's name conversions (safe_path_seg, str.strip) are computed.      *)
(* Numbers are integers counting units of 10^-7, so that the "%.6f"        *)
(* formatting of the TechTree cost deduction is a rounding, not the        *)
(* identity.                                                               *)
(***************************************************************************)
EXTENDS Integers, Sequences, FiniteSets, TLC

VARIABLES
    VOTES,      \* (save, tech) -> vote session                (server.py:572)
    PRESENCE,   \* user -> ut_epoch of the last heartbeat      (server.py:737)
    now,        \* the value time.time() returns
    points,     \* content of <save>/SciencePoints.txt
    techtree,   \* content of <save>/TechTree.txt
    archives,   \* content of <save>/ScienceArchives.txt
    uploaded,   \* history: what the ScienceArchives uploads have carried so far
    scans,      \* (save, user) -> content of <save>/SCANcontroller_users/<user>.txt
    others,     \* (save, module) -> content of <save>/<module>.txt, other modules
    last,       \* the request served last and the response it got
    pc,         \* per request thread: the line it is about to run
    loc         \* per request thread: the handler's local variables

vars == <<VOTES, PRESENCE, now, points, techtree, archives, uploaded, scans, others, last, pc, loc>>

-----------------------------------------------------------------------------
(* Bounds of the model *)

MaxNow == 30        \* the clock stops advancing here
MaxUpload == 2      \* Tech blocks in one TechTree upload
MaxFile == 2        \* Tech blocks in TechTree.txt beyond which no upload is tried

-----------------------------------------------------------------------------
(* Text *)

Letters == {"a", "b", "d", "e", "f", "l", "t", "u", "s", "P", "y", "r", "T",
            "S", "c", "i", "n", "o", "h", "A", "v", "C", "N"}
Digits == {"1", "2"}

\* c.isalnum() or c in "_-."
SafeChar(c) == c \in Letters \cup Digits \cup {"_", "-", "."}

DefaultSeg == <<"d", "e", "f", "a", "u", "l", "t">>

\* safe_path_seg(name, default="default")
safe_path_seg(name) ==
    LET s == IF name = <<>> THEN DefaultSeg ELSE name
    IN  SelectSeq(s, SafeChar)

IsSpace(c) == c \in {" ", "\t", "\n"}

RECURSIVE lstrip(_)
lstrip(s) == IF s # <<>> /\ IsSpace(Head(s)) THEN lstrip(Tail(s)) ELSE s

RECURSIVE rstrip(_)
rstrip(s) ==
    IF s # <<>> /\ IsSpace(s[Len(s)]) THEN rstrip(SubSeq(s, 1, Len(s) - 1)) ELSE s

\* str.strip()
strip(s) == rstrip(lstrip(s))

\* _key(save, tech)
_key(save, tech) == <<safe_path_seg(save), safe_path_seg(tech)>>

-----------------------------------------------------------------------------
(* Request inputs *)

Missing == <<"\n">>     \* the JSON body has no such field

Player == <<"P", "l", "a", "y", "e", "r">>

UserA == <<"a">>
UserB == <<"b">>
UserBpad == <<" ", "b">>

RawUsers == {UserA, UserBpad}
PresenceUsers == {UserA, UserB}

Save1 == <<"s">>
Tech1 == <<"T", "1">>
Tech2 == <<"T", "2">>
Tech1sp == <<"T", " ", "1">>

RawSaves == {Save1}
RawTechs == {Tech1, Tech2, Tech1sp}

Keys == {_key(s, t) : s \in RawSaves, t \in RawTechs}

Threads == {1, 2}

-----------------------------------------------------------------------------
(* Maps with a growing key set (Python dicts) *)

EmptyMap == [x \in {} |-> TRUE]

\* <save>/ScienceArchives.txt does not exist
NoArchive == [st |-> "absent", blocks |-> <<>>]

Put(f, k, v) == [x \in DOMAIN f \cup {k} |-> IF x = k THEN v ELSE f[x]]

-----------------------------------------------------------------------------
(* Presence: who is online *)

PRESENCE_TTL == 30

\* _online_users(): the users whose last heartbeat is younger than the TTL
_online_users == {u \in DOMAIN PRESENCE : now - PRESENCE[u] < PRESENCE_TTL}

Idle == [t \in Threads |-> "idle"]
NoLocals == [t \in Threads |-> EmptyMap]

NoKey == <<>>
NoUser == <<>>

NoArg == <<>>

\* a request (the handler, the vote key, the caller as the handler resolves it,
\* the payload) and its response (status code and body), as one record
Served(op, k, user, arg, code, body) ==
    [op |-> op, key |-> k, user |-> user, arg |-> arg, code |-> code, body |-> body]

\* POST /presence/<user> without a client time stamp: ut_epoch = time.time()
presence_post(user) ==
    /\ PRESENCE' = Put(PRESENCE, user, now)
    /\ last' = Served("presence_post", NoKey, NoUser, NoArg, 200, "OK")
    /\ UNCHANGED <<others, archives, uploaded, scans, VOTES, now, points, techtree, pc, loc>>

\* DELETE /presence/<user>
presence_delete(user) ==
    /\ PRESENCE' = [u \in DOMAIN PRESENCE \ {user} |-> PRESENCE[u]]
    /\ last' = Served("presence_delete", NoKey, NoUser, NoArg, 200, "OK")
    /\ UNCHANGED <<others, archives, uploaded, scans, VOTES, now, points, techtree, pc, loc>>

\* the wall clock advances by one TTL
Tick ==
    /\ now + PRESENCE_TTL <= MaxNow
    /\ now' = now + PRESENCE_TTL
    /\ last' = Served("tick", NoKey, NoUser, NoArg, 0, "")
    /\ UNCHANGED <<others, archives, uploaded, scans, VOTES, PRESENCE, points, techtree, pc, loc>>

-----------------------------------------------------------------------------
(* The vote coordinator *)

\* data.get('user', 'Player')
RequesterOf(user) == IF user = Missing THEN Player ELSE user

\* (data.get('user') or 'Player').strip()
CallerOf(user) == strip(IF user = Missing \/ user = <<>> THEN Player ELSE user)

\* mutant: a lone online user already asks for two voters
QuorumFor_strict(online_cnt) == IF online_cnt < 1 THEN 1 ELSE 2

\* quorum = 1 if online_cnt <= 1 else 2
QuorumFor(online_cnt) == IF online_cnt <= 1 THEN 1 ELSE 2

\* the dict vote_start stores
NewSession(requester, quorum) ==
    [requester |-> requester, votes |-> EmptyMap, closed |-> FALSE,
     approved |-> "None", quorum |-> quorum]

\* sum(1 for v in votes.values() if v)
YesCount(votes) == Cardinality({u \in DOMAIN votes : votes[u]})

\* sum(1 for v in votes.values() if not v)
NoCount(votes) == Cardinality({u \in DOMAIN votes : ~votes[u]})

\* mutant: a tie approves
Approved_tie(yes, no) == IF yes >= no THEN "True" ELSE "False"

\* (yes > no), as Python prints it
Approved(yes, no) == IF yes > no THEN "True" ELSE "False"

\* mutant: the closed flag is not looked at
IsOpen_any(V, k) == k \in DOMAIN V

\* the guard of vote_cast: k in VOTES and not VOTES[k].get('closed')
IsOpen(V, k) == k \in DOMAIN V /\ ~V[k].closed

\* mutant: the quorum is counted again from the users online at the cast
Tally_live(v) ==
    LET yes == YesCount(v.votes)
        no == NoCount(v.votes)
    IN  IF yes + no >= QuorumFor(Cardinality(_online_users))
        THEN [v EXCEPT !.closed = TRUE, !.approved = Approved(yes, no)]
        ELSE v

\* lines 611-617 of vote_cast: tally, and close on quorum
Tally(v) ==
    LET yes == YesCount(v.votes)
        no == NoCount(v.votes)
    IN  IF yes + no >= v.quorum
        THEN [v EXCEPT !.closed = TRUE, !.approved = Approved(yes, no)]
        ELSE v

\* mutant: a second ballot of a user is kept beside the first
CastBallot_again(v, user, vote) ==
    Tally([v EXCEPT !.votes = Put(v.votes,
                                  IF user \in DOMAIN v.votes THEN user \o user ELSE user,
                                  vote)])

\* lines 610-617 of vote_cast
CastBallot(v, user, vote) == Tally([v EXCEPT !.votes = Put(v.votes, user, vote)])

\* mutant: any caller cancels
Cancelled_anyone(v, user) == [v EXCEPT !.closed = TRUE, !.approved = "False"]

\* mutant: the cancel closes the session without a verdict
Cancelled_noverdict(v, user) ==
    IF user = v.requester THEN [v EXCEPT !.closed = TRUE] ELSE v

\* lines 654-656 of vote_cancel
Cancelled(v, user) ==
    IF user = v.requester
    THEN [v EXCEPT !.closed = TRUE, !.approved = "False"]
    ELSE v

\* the JSON vote_status returns for a session
StatusOf(v) ==
    [requester |-> v.requester, yes |-> YesCount(v.votes), no |-> NoCount(v.votes),
     decided |-> v.closed, approved |-> v.approved]

NotDecided == [decided |-> FALSE]

\* mutant: a start on a key whose session is open fails
vote_start_once(save, tech, user) ==
    LET k == _key(save, tech)
        requester == RequesterOf(user)
        quorum == QuorumFor(Cardinality(_online_users))
    IN  /\ VOTES' = IF IsOpen(VOTES, k) THEN VOTES
                    ELSE Put(VOTES, k, NewSession(requester, quorum))
        /\ last' = Served("start", k, requester, NoArg, 200, "OK")
        /\ UNCHANGED <<others, archives, uploaded, scans, PRESENCE, now, points, techtree, pc, loc>>

\* POST /vote/start/<save>/<tech>
vote_start(save, tech, user) ==
    LET k == _key(save, tech)
        requester == RequesterOf(user)
        quorum == QuorumFor(Cardinality(_online_users))
    IN  /\ VOTES' = Put(VOTES, k, NewSession(requester, quorum))
        /\ last' = Served("start", k, requester, NoArg, 200, "OK")
        /\ UNCHANGED <<others, archives, uploaded, scans, PRESENCE, now, points, techtree, pc, loc>>

\* POST /vote/cast/<save>/<tech>
vote_cast(save, tech, user, vote) ==
    LET k == _key(save, tech)
        u == CallerOf(user)
    IN  /\ IF IsOpen(VOTES, k)
           THEN /\ VOTES' = [VOTES EXCEPT ![k] = CastBallot(@, u, vote)]
                /\ last' = Served("cast", k, u, <<vote>>, 200, "OK")
           ELSE /\ VOTES' = VOTES
                /\ last' = Served("cast", k, u, <<vote>>, 400, "No open vote")
        /\ UNCHANGED <<others, archives, uploaded, scans, PRESENCE, now, points, techtree, pc, loc>>

\* mutant: the lookup is VOTES.setdefault(k, ...), which creates the session
vote_status_setdefault(save, tech) ==
    LET k == _key(save, tech)
        V == IF k \in DOMAIN VOTES THEN VOTES ELSE Put(VOTES, k, NewSession(Player, 2))
    IN  /\ VOTES' = V
        /\ last' = Served("status", k, NoUser, NoArg, 200, StatusOf(V[k]))
        /\ UNCHANGED <<others, archives, uploaded, scans, PRESENCE, now, points, techtree, pc, loc>>

\* GET /vote/status/<save>/<tech>
vote_status(save, tech) ==
    LET k == _key(save, tech)
    IN  /\ last' = Served("status", k, NoUser, NoArg, 200,
                          IF k \in DOMAIN VOTES THEN StatusOf(VOTES[k]) ELSE NotDecided)
        /\ UNCHANGED <<others, archives, uploaded, scans, VOTES, PRESENCE, now, points, techtree, pc, loc>>

\* POST /vote/cancel/<save>/<tech>
vote_cancel(save, tech, user) ==
    LET k == _key(save, tech)
        u == CallerOf(user)
    IN  /\ IF k \in DOMAIN VOTES
           THEN /\ VOTES' = [VOTES EXCEPT ![k] = Cancelled(@, u)]
                /\ last' = Served("cancel", k, u, NoArg, 200, "OK")
           ELSE /\ VOTES' = VOTES
                /\ last' = Served("cancel", k, u, NoArg, 200, "No vote")
        /\ UNCHANGED <<others, archives, uploaded, scans, PRESENCE, now, points, techtree, pc, loc>>

-----------------------------------------------------------------------------
(* Numbers.  A float is an integer count of units of 10^-7. *)

Max2(a, b) == IF a >= b THEN a ELSE b

\* float(f"{x:.6f}") for x >= 0: six decimals are kept, the seventh is rounded
\* away (the value sets below hold no exact half)
Fmt6(x) == ((x + 5) \div 10) * 10

\* float(repr(x)): repr round-trips
ReprFloat(x) == x

-----------------------------------------------------------------------------
(* Files of the save.  A text that float() accepts is Num(x); any other    *)
(* text, the empty file included, is Garbage.                               *)

NoFile == [st |-> "absent", v |-> 0]
Garbage == [st |-> "bad", v |-> 0]
Num(x) == [st |-> "num", v |-> x]

\* os.path.exists(path)
Exists(f) == f.st # "absent"

\* float(text.strip().split('=')[-1]) succeeds
Parses(f) == f.st = "num"

\* mutant: the upload is stored without the comparison
StorePoints_overwrite(old, new_value) == Num(ReprFloat(new_value))

\* mutant: a missing or unreadable file counts as a stored 0.0
StorePoints_fromzero(old, new_value) ==
    IF Exists(old) /\ Parses(old)
    THEN IF new_value > old.v THEN Num(ReprFloat(new_value)) ELSE old
    ELSE IF new_value > 0 THEN Num(ReprFloat(new_value)) ELSE old

\* lines 315-327: what a valid SciencePoints upload leaves in SciencePoints.txt
StorePoints(old, new_value) ==
    IF Exists(old)
    THEN IF Parses(old)
         THEN IF new_value > old.v THEN Num(ReprFloat(new_value)) ELSE old
         ELSE Num(ReprFloat(new_value))
    ELSE Num(ReprFloat(new_value))

\* mutant: a payload that float() rejects is taken as 0.0
upload_SciencePoints_lenient(payload) ==
    /\ points' = StorePoints(points, IF Parses(payload) THEN payload.v ELSE 0)
    /\ last' = Served("upload_SciencePoints", NoKey, NoUser, payload, 200, "OK")
    /\ UNCHANGED <<others, archives, uploaded, scans, VOTES, PRESENCE, now, techtree, pc, loc>>

\* POST /scenarios/<save>/SciencePoints
upload_SciencePoints(payload) ==
    /\ IF Parses(payload)
       THEN /\ points' = StorePoints(points, payload.v)
            /\ last' = Served("upload_SciencePoints", NoKey, NoUser, payload, 200, "OK")
       ELSE /\ points' = points
            /\ last' = Served("upload_SciencePoints", NoKey, NoUser, payload, 400, "Invalid format")
    /\ UNCHANGED <<others, archives, uploaded, scans, VOTES, PRESENCE, now, techtree, pc, loc>>

-----------------------------------------------------------------------------
(* TechTree.txt: a sequence of Tech blocks.  A block is its id (<<>> when  *)
(* it has no "id = " line) and its cost (<<>> when it has no parsable      *)
(* "cost = " line after the id, else <<c>>).                                *)

NoTree == [st |-> "absent", blocks |-> <<>>]
Tree(blocks) == [st |-> "file", blocks |-> blocks]

Block(id, cost) == [id |-> id, cost |-> cost]

\* extract_tech_ids_and_costs(text)[0]
TechIds(blocks) == {blocks[i].id : i \in DOMAIN blocks} \ {<<>>}

\* extract_tech_ids_and_costs(text)[1].get(id, 0.0): the last cost line wins
CostOf(blocks, id) ==
    LET at == {i \in DOMAIN blocks : blocks[i].id = id /\ blocks[i].cost # <<>>}
    IN  IF at = {} THEN 0
        ELSE blocks[CHOOSE i \in at : \A j \in at : j <= i].cost[1]

\* mutant: the test against the stored ids is left out
Accepted_any(block, existing_ids) == block.id # <<>>

\* line 380: the block is appended
Accepted(block, existing_ids) == block.id # <<>> /\ block.id \notin existing_ids

\* lines 372-382: the blocks the merge loop appends
NewBlocks(new_blocks, existing_ids) ==
    SelectSeq(new_blocks, LAMBDA b : Accepted(b, existing_ids))

RECURSIVE SumCosts(_, _)
SumCosts(added, new_blocks) ==
    IF added = <<>> THEN 0
    ELSE CostOf(new_blocks, Head(added).id) + SumCosts(Tail(added), new_blocks)

\* mutant: a missing or unreadable points file counts as 0 points
Deduct_default(pts, unlocked_cost) ==
    Num(Fmt6(Max2(0, (IF Exists(pts) /\ Parses(pts) THEN pts.v ELSE 0) - unlocked_cost)))

\* lines 388-396: the cost deduction
Deduct(pts, unlocked_cost) ==
    IF Exists(pts) /\ Parses(pts)
    THEN Num(Fmt6(Max2(0, pts.v - unlocked_cost)))
    ELSE pts

\* mutant: only blocks whose vote was approved are taken
upload_TechTree_gated(new_blocks) ==
    LET passed(b) == /\ _key(Save1, b.id) \in DOMAIN VOTES
                     /\ VOTES[_key(Save1, b.id)].approved = "True"
        voted == SelectSeq(new_blocks, passed)
    IN  /\ IF Exists(techtree)
           THEN LET added == NewBlocks(voted, TechIds(techtree.blocks))
                IN  /\ techtree' = Tree(techtree.blocks \o added)
                    /\ points' = Deduct(points, SumCosts(added, voted))
                    /\ last' = Served("upload_TechTree", NoKey, NoUser, TechIds(added), 200, "OK")
           ELSE /\ techtree' = Tree(voted)
                /\ points' = points
                /\ last' = Served("upload_TechTree", NoKey, NoUser, TechIds(voted), 200, "OK")
        /\ UNCHANGED <<others, archives, uploaded, scans, VOTES, PRESENCE, now, pc, loc>>

\* mutant: the first upload of a save is charged like a merge
upload_TechTree_charged(new_blocks) ==
    LET existing_ids == TechIds(techtree.blocks)
        added == NewBlocks(new_blocks, existing_ids)
    IN  /\ techtree' = IF Exists(techtree) THEN Tree(techtree.blocks \o added)
                                           ELSE Tree(new_blocks)
        /\ points' = Deduct(points, SumCosts(added, new_blocks))
        /\ last' = Served("upload_TechTree", NoKey, NoUser,
                          IF Exists(techtree) THEN TechIds(added) ELSE TechIds(new_blocks),
                          200, "OK")
        /\ UNCHANGED <<others, archives, uploaded, scans, VOTES, PRESENCE, now, pc, loc>>

\* POST /scenarios/<save>/TechTree
upload_TechTree(new_blocks) ==
    /\ IF Exists(techtree)
       THEN LET existing_ids == TechIds(techtree.blocks)
                added == NewBlocks(new_blocks, existing_ids)
            IN  /\ techtree' = Tree(techtree.blocks \o added)
                /\ points' = Deduct(points, SumCosts(added, new_blocks))
                /\ last' = Served("upload_TechTree", NoKey, NoUser, TechIds(added), 200, "OK")
       ELSE /\ techtree' = Tree(new_blocks)
            /\ points' = points
            /\ last' = Served("upload_TechTree", NoKey, NoUser, TechIds(new_blocks), 200, "OK")
    /\ UNCHANGED <<others, archives, uploaded, scans, VOTES, PRESENCE, now, pc, loc>>

\* what clients send
UploadVals == {4, 20, 30}
Payloads == {Num(x) : x \in UploadVals} \cup {Garbage}
BlockIds == {Tech1, Tech2}
\* T1 comes without a cost or with one of six decimals, T2 with a cost of
\* seven decimals
BlockCosts == [i \in BlockIds |-> IF i = Tech1 THEN {<<>>, <<10>>} ELSE {<<16>>}]
\* (a cost line of a block without id is never read: line 341)
AllBlocks ==
    {Block(<<>>, <<>>)} \cup UNION {{Block(i, c) : c \in BlockCosts[i]} : i \in BlockIds}
RECURSIVE SeqsUpTo(_, _)
SeqsUpTo(S, n) ==
    IF n = 0 THEN {<<>>}
    ELSE LET shorter == SeqsUpTo(S, n - 1)
         IN  shorter \cup {Append(q, x) : q \in shorter, x \in S}
Uploads == SeqsUpTo(AllBlocks, MaxUpload)

-----------------------------------------------------------------------------
(* ScienceArchives.txt: a sequence of Science blocks.  A block is its id    *)
(* (<<>> when it has no "id =" line), its sci and its cap (<<>> when the    *)
(* block has no such line or float() rejects it, else <<x>>).               *)

ArchiveOf(blocks) == [st |-> "file", blocks |-> blocks]
Science(id, sci, cap) == [id |-> id, sci |-> sci, cap |-> cap]

Min2(a, b) == IF a < b THEN a ELSE b

\* str < str on the one-letter ids of the model
Code(c) == IF c = "A" THEN 1 ELSE IF c = "B" THEN 2 ELSE 3
StrLess(a, b) == Code(a[1]) < Code(b[1])

\* sorted(merged_map.keys())
RECURSIVE sorted(_)
sorted(keys) ==
    IF keys = {} THEN <<>>
    ELSE LET k == CHOOSE x \in keys : \A y \in keys \ {x} : StrLess(x, y)
         IN  <<k>> \o sorted(keys \ {k})

\* lines 422-434
parse_block(block) == [sid |-> block.id, sci |-> block.sci, cap |-> block.cap]

\* lines 436-450: the sci line of the block is rewritten, or one is inserted
replace_sci(block, new_sci) == [block EXCEPT !.sci = <<ReprFloat(new_sci)>>]

\* lines 455-461: the stored blocks, by id; a later block of an id wins
RECURSIVE ExistingMap(_)
ExistingMap(existing_blocks) ==
    IF existing_blocks = <<>> THEN EmptyMap
    ELSE LET n == Len(existing_blocks)
             b == existing_blocks[n]
             before == ExistingMap(SubSeq(existing_blocks, 1, n - 1))
             p == parse_block(b)
         IN  IF p.sid # <<>>
             THEN Put(before, p.sid, [raw |-> b, sci |-> p.sci, cap |-> p.cap])
             ELSE before

\* mutant: the uploaded sci is taken without the comparison
MergeBlock_latest(merged_map, b) ==
    LET p == parse_block(b)
        prev == IF p.sid \in DOMAIN merged_map THEN merged_map[p.sid]
                ELSE [raw |-> b, sci |-> <<>>, cap |-> <<>>]
        cap_final == IF p.cap # <<>> THEN p.cap ELSE prev.cap
        start == IF prev.sci # <<>> THEN prev.sci[1] ELSE 0
        larger == IF p.sci # <<>> THEN p.sci[1] ELSE start
        best_sci == IF cap_final # <<>> THEN Min2(larger, cap_final[1]) ELSE larger
        base_block == IF p.sci # <<>> THEN b ELSE prev.raw
        out_block == replace_sci(base_block, best_sci)
    IN  IF p.sid = <<>> THEN merged_map
        ELSE Put(merged_map, p.sid, [raw |-> out_block, sci |-> <<best_sci>>, cap |-> cap_final])

\* lines 464-476: one round of the merge loop
MergeBlock(merged_map, b) ==
    LET p == parse_block(b)
        prev == IF p.sid \in DOMAIN merged_map THEN merged_map[p.sid]
                ELSE [raw |-> b, sci |-> <<>>, cap |-> <<>>]
        cap_final == IF p.cap # <<>> THEN p.cap ELSE prev.cap
        start == IF prev.sci # <<>> THEN prev.sci[1] ELSE 0
        larger == IF p.sci # <<>> /\ p.sci[1] > start THEN p.sci[1] ELSE start
        best_sci == IF cap_final # <<>> THEN Min2(larger, cap_final[1]) ELSE larger
        base_block == IF p.sci # <<>> /\ (prev.sci = <<>> \/ p.sci[1] >= prev.sci[1])
                      THEN b ELSE prev.raw
        out_block == replace_sci(base_block, best_sci)
    IN  IF p.sid = <<>> THEN merged_map
        ELSE Put(merged_map, p.sid, [raw |-> out_block, sci |-> <<best_sci>>, cap |-> cap_final])

\* lines 463-476: the merge loop
RECURSIVE MergeAll(_, _)
MergeAll(merged_map, new_blocks) ==
    IF new_blocks = <<>> THEN merged_map
    ELSE MergeAll(MergeBlock(merged_map, Head(new_blocks)), Tail(new_blocks))

\* history: per id the largest sci and the latest cap the uploads carried
Carried(seen, b) ==
    LET old == IF b.id \in DOMAIN seen THEN seen[b.id] ELSE [sci |-> <<>>, cap |-> <<>>]
    IN  IF b.id = <<>> THEN seen
        ELSE Put(seen, b.id,
                 [sci |-> IF b.sci = <<>> THEN old.sci
                          ELSE IF old.sci = <<>> THEN b.sci
                          ELSE <<Max2(old.sci[1], b.sci[1])>>,
                  cap |-> IF b.cap = <<>> THEN old.cap ELSE b.cap])

RECURSIVE CarriedAll(_, _)
CarriedAll(seen, new_blocks) ==
    IF new_blocks = <<>> THEN seen
    ELSE CarriedAll(Carried(seen, Head(new_blocks)), Tail(new_blocks))

\* mutant: the file is written from the uploaded blocks alone
MergedArchive_uploadonly(file, new_blocks) ==
    LET merged_map == MergeAll(EmptyMap, new_blocks)
        keys == sorted(DOMAIN merged_map)
    IN  ArchiveOf([i \in 1..Len(keys) |-> merged_map[keys[i]].raw])

\* lines 452-479: the file an upload leaves
MergedArchive(file, new_blocks) ==
    LET existing == IF Exists(file) THEN ExistingMap(file.blocks) ELSE EmptyMap
        merged_map == MergeAll(existing, new_blocks)
        keys == sorted(DOMAIN merged_map)
    IN  ArchiveOf([i \in 1..Len(keys) |-> merged_map[keys[i]].raw])

\* POST /scenarios/<save>/ScienceArchives
upload_ScienceArchives(new_blocks) ==
    /\ archives' = MergedArchive(archives, new_blocks)
    /\ uploaded' = CarriedAll(uploaded, new_blocks)
    /\ last' = Served("upload_ScienceArchives", NoKey, NoUser, new_blocks, 200, "OK")
    /\ UNCHANGED <<others, VOTES, PRESENCE, now, points, techtree, scans, pc, loc>>

\* what clients send
SciA == <<"A">>
SciB == <<"B">>
SciVals == {40, 60}
CapVals == {50}
ScienceBlocks ==
    {Science(SciA, s, c) : s \in {<<>>} \cup {<<x>> : x \in SciVals},
                           c \in {<<>>} \cup {<<x>> : x \in CapVals}}
    \cup {Science(SciB, <<40>>, <<>>), Science(<<>>, <<40>>, <<>>)}

-----------------------------------------------------------------------------
(* Reading SciencePoints back: GET /scenarios/<save>/SciencePoints *)

\* lines 537-544: the sum of the "sci =" lines of ScienceArchives.txt
RECURSIVE total_science(_)
total_science(blocks) ==
    IF blocks = <<>> THEN 0
    ELSE (IF Head(blocks).sci = <<>> THEN 0 ELSE Head(blocks).sci[1])
         + total_science(Tail(blocks))

\* lines 545-552: the sum of the "cost =" lines of TechTree.txt
RECURSIVE total_cost(_)
total_cost(blocks) ==
    IF blocks = <<>> THEN 0
    ELSE (IF Head(blocks).cost = <<>> THEN 0 ELSE Head(blocks).cost[1])
         + total_cost(Tail(blocks))

\* mutant: the read returns the number SciencePoints.txt holds
download_SciencePoints_stored ==
    /\ last' = Served("download_SciencePoints", NoKey, NoUser, NoArg, 200,
                      IF Parses(points) THEN Fmt6(points.v) ELSE 0)
    /\ UNCHANGED <<others, VOTES, PRESENCE, now, points, techtree, archives, uploaded, scans, pc, loc>>

\* lines 532-554: the body is "sci = %.6f" of final_points, held here as the
\* number the text stands for
download_SciencePoints ==
    LET final_points == Max2(0, total_science(archives.blocks) - total_cost(techtree.blocks))
    IN  /\ last' = Served("download_SciencePoints", NoKey, NoUser, NoArg, 200,
                          Fmt6(final_points))
        /\ UNCHANGED <<others, VOTES, PRESENCE, now, points, techtree, archives, uploaded, scans, pc, loc>>

-----------------------------------------------------------------------------
(* Modules without a branch of their own in upload_scenario *)

SciencePointsName == <<"S", "c", "i", "e", "n", "c", "e", "P", "o", "i", "n", "t", "s">>
TechTreeName == <<"T", "e", "c", "h", "T", "r", "e", "e">>
ScienceArchivesName ==
    <<"S", "c", "i", "e", "n", "c", "e", "A", "r", "c", "h", "i", "v", "e", "s">>
SCANcontrollerName ==
    <<"S", "C", "A", "N", "c", "o", "n", "t", "r", "o", "l", "l", "e", "r">>

\* the values of module_safe that lines 310, 329, 401 and 481 test for
KnownModules == {SciencePointsName, TechTreeName, ScienceArchivesName, SCANcontrollerName}

\* mutant: the upload is written to <module>.txt as received
upload_scenario_other_stored(save, module, new_data) ==
    LET save_safe == safe_path_seg(save)
        module_safe == safe_path_seg(module)
    IN  /\ module_safe \notin KnownModules
        /\ others' = Put(others, <<save_safe, module_safe>>, new_data)
        /\ last' = Served("upload_scenario", <<save, module>>, NoUser, new_data, 200, "OK")
        /\ UNCHANGED <<VOTES, PRESENCE, now, points, techtree, archives, uploaded, scans, pc, loc>>

\* POST /scenarios/<save>/<module>, lines 300-308 and 506: no branch matches
\* module_safe.  (os.makedirs creates the folder of the save, which no
\* handler tells from a missing one: list_scenario_files answers [] for both.)
upload_scenario_other(save, module, new_data) ==
    LET module_safe == safe_path_seg(module)
    IN  /\ module_safe \notin KnownModules
        /\ last' = Served("upload_scenario", <<save, module>>, NoUser, new_data, 200, "OK")
        /\ UNCHANGED <<others, VOTES, PRESENCE, now, points, techtree, archives, uploaded, scans, pc, loc>>

\* GET /scenarios/<save>/<module>, lines 508-513 and 556-560, for a module
\* that has no variable of its own here
download_scenario_other(save, module) ==
    LET save_safe == safe_path_seg(save)
        module_safe == safe_path_seg(module)
        path == <<save_safe, module_safe>>
    IN  /\ module_safe \notin KnownModules
        /\ IF path \in DOMAIN others
           THEN last' = Served("download_scenario", <<save, module>>, NoUser, NoArg, 200,
                               others[path])
           ELSE last' = Served("download_scenario", <<save, module>>, NoUser, NoArg, 404,
                               "Scenario not found")
        /\ UNCHANGED <<others, VOTES, PRESENCE, now, points, techtree, archives, uploaded, scans, pc, loc>>

-----------------------------------------------------------------------------
(* SCANsat coverage maps (src/Server/serverold.py).  A Map text is the      *)
(* sequence of its Base64 characters, each written as its place in the      *)
(* Base64 alphabet (A = 0 ... / = 63) and '=' as 64.  Bytes are 0..255.     *)

B64Pad == 64

RECURSIVE BitOr(_, _)
\* x | y
BitOr(x, y) ==
    IF x = 0 THEN y
    ELSE IF y = 0 THEN x
    ELSE 2 * BitOr(x \div 2, y \div 2) + (IF x % 2 = 1 \/ y % 2 = 1 THEN 1 ELSE 0)

\* base64.b64decode: the bytes of the data characters, four characters for
\* three bytes; the bits left over at the end are dropped
RECURSIVE DecodeData(_)
DecodeData(d) ==
    IF Len(d) >= 4
    THEN LET n == ((d[1] * 64 + d[2]) * 64 + d[3]) * 64 + d[4]
         IN  <<n \div 65536, (n \div 256) % 256, n % 256>> \o DecodeData(SubSeq(d, 5, Len(d)))
    ELSE IF Len(d) = 3
    THEN LET n == ((d[1] * 64 + d[2]) * 64 + d[3]) \div 4
         IN  <<n \div 256, n % 256>>
    ELSE IF Len(d) = 2
    THEN <<(d[1] * 64 + d[2]) \div 16>>
    ELSE <<>>

\* lines 196-200: the padding is completed, then the text is decoded;
\* b64decode raises when one data character is left over
_b64decode(s) ==
    LET d == SelectSeq(s, LAMBDA c : c # B64Pad)
    IN  IF Len(d) % 4 = 1 THEN [ok |-> FALSE, bytes |-> <<>>]
        ELSE [ok |-> TRUE, bytes |-> DecodeData(d)]

\* lines 202-204
RECURSIVE _b64encode(_)
_b64encode(b) ==
    IF Len(b) >= 3
    THEN LET n == (b[1] * 256 + b[2]) * 256 + b[3]
         IN  <<n \div 262144, (n \div 4096) % 64, (n \div 64) % 64, n % 64>>
                 \o _b64encode(SubSeq(b, 4, Len(b)))
    ELSE IF Len(b) = 2
    THEN LET n == (b[1] * 256 + b[2]) * 4
         IN  <<n \div 4096, (n \div 64) % 64, n % 64, B64Pad>>
    ELSE IF Len(b) = 1
    THEN LET n == b[1] * 16
         IN  <<n \div 64, n % 64, B64Pad, B64Pad>>
    ELSE <<>>

\* lines 211-212: A += b"\x00" * (L - len(A))
ZeroExtend(A, L) == [i \in 1..L |-> IF i <= Len(A) THEN A[i] ELSE 0]

\* lines 206-217
_map_union(a, b) ==
    LET A == _b64decode(a)
        B == _b64decode(b)
        L == Max2(Len(A.bytes), Len(B.bytes))
    IN  IF A.ok /\ B.ok
        THEN _b64encode([i \in 1..L |-> BitOr(ZeroExtend(A.bytes, L)[i], ZeroExtend(B.bytes, L)[i])])
        ELSE IF Len(a) >= Len(b) THEN a ELSE b

-----------------------------------------------------------------------------
(* SCANcontroller text: a sequence of tokens.  A token is a line break, a   *)
(* brace, a word (a block header or a value) or the start of a              *)
(* "key = value" line with its value; white space inside a line is left out.*)

Tok(t, k, v) == [t |-> t, k |-> k, v |-> v]
NL == Tok("\n", <<>>, <<>>)
Open == Tok("{", <<>>, <<>>)
Close == Tok("}", <<>>, <<>>)
Word(w) == Tok(w, <<>>, <<>>)
NameLine(n) == Tok("Name =", n, <<>>)
GuidLine(g) == Tok("guid =", g, <<>>)
MapLine(m) == Tok("Map =", <<>>, m)

\* str.splitlines()
RECURSIVE splitlines(_)
splitlines(s) ==
    IF s = <<>> THEN <<>>
    ELSE LET nl == {i \in 1..Len(s) : s[i] = NL}
         IN  IF nl = {} THEN <<s>>
             ELSE LET i == CHOOSE x \in nl : \A y \in nl : x <= y
                  IN  <<SubSeq(s, 1, i - 1)>> \o splitlines(SubSeq(s, i + 1, Len(s)))

\* "\n".join(lines)
RECURSIVE join(_)
join(lines) ==
    IF lines = <<>> THEN <<>>
    ELSE IF Len(lines) = 1 THEN lines[1]
    ELSE lines[1] \o <<NL>> \o join(Tail(lines))

\* ln.strip().startswith(prefix)
startswith(ln, prefix) == ln # <<>> /\ ln[1].t = prefix

\* raw.count(c)
count(ln, c) == Cardinality({i \in 1..Len(ln) : ln[i] = c})

\* lines 219-224
_extract_map(block) ==
    LET lines == splitlines(block)
        hits == {i \in 1..Len(lines) : startswith(lines[i], "Map =")}
    IN  IF hits = {} THEN <<>>
        ELSE lines[CHOOSE i \in hits : \A j \in hits : i <= j][1].v

\* lines 226-241
_replace_map(block, new_map) ==
    LET lines == splitlines(block)
        hits == {i \in 1..Len(lines) : startswith(lines[i], "Map =")}
        closing == {i \in 1..Len(lines) : lines[i] = <<Close>>}
    IN  IF hits # {}
        THEN LET h == CHOOSE i \in hits : \A j \in hits : i <= j
             IN  join([lines EXCEPT ![h] = <<MapLine(new_map)>>])
        ELSE IF closing # {}
        THEN LET c == CHOOSE i \in closing : \A j \in closing : i >= j
             IN  join(SubSeq(lines, 1, c - 1) \o <<<<MapLine(new_map)>>>>
                          \o SubSeq(lines, c, Len(lines)))
        ELSE join(lines)

\* lines 255-260: the key of a collected block is its last "guid =" line
\* (Vessel) or "Name =" line (Body); <<>> stands for None
BlockKey(prefix, cur) ==
    LET field == IF prefix = "Vessel" THEN "guid =" ELSE "Name ="
        hits == {i \in 1..Len(cur) : startswith(cur[i], field)}
    IN  IF hits = {} THEN <<>>
        ELSE cur[CHOOSE i \in hits : \A j \in hits : i >= j][1].k

\* lines 246-263, from line i on, with the loop's out, cur and lvl
RECURSIVE BlocksLoop(_, _, _, _, _, _)
BlocksLoop(prefix, lines, i, out, cur, lvl) ==
    IF i > Len(lines) THEN out
    ELSE LET raw == lines[i]
         IN  IF startswith(raw, prefix)
             THEN BlocksLoop(prefix, lines, i + 1, out, <<raw>>, 1)
             ELSE IF cur # <<>>
             THEN LET cur2 == Append(cur, raw)
                      lvl2 == lvl + count(raw, Open) - count(raw, Close)
                      key == BlockKey(prefix, cur2)
                  IN  IF lvl2 <= 0
                      THEN BlocksLoop(prefix, lines, i + 1,
                                      IF key # <<>> THEN Put(out, key, join(cur2)) ELSE out,
                                      <<>>, lvl2)
                      ELSE BlocksLoop(prefix, lines, i + 1, out, cur2, lvl2)
             ELSE BlocksLoop(prefix, lines, i + 1, out, cur, lvl)

\* lines 243-264
_blocks_by(prefix, text) == BlocksLoop(prefix, splitlines(text), 1, EmptyMap, <<>>, 0)

\* ord(c) of the characters that user names and body names are made of
ord(c) ==
    CASE c = "-" -> 45 [] c = "." -> 46 [] c = "1" -> 49 [] c = "2" -> 50
      [] c = "K" -> 75 [] c = "M" -> 77 [] c = "_" -> 95
      [] c = "a" -> 97 [] c = "b" -> 98 [] OTHER -> 120

\* str < str
RECURSIVE LexLess(_, _)
LexLess(a, b) ==
    IF b = <<>> THEN FALSE
    ELSE IF a = <<>> THEN TRUE
    ELSE IF a[1] = b[1] THEN LexLess(Tail(a), Tail(b))
    ELSE ord(a[1]) < ord(b[1])

\* sorted(names)
RECURSIVE sorted_names(_)
sorted_names(names) ==
    IF names = {} THEN <<>>
    ELSE LET k == CHOOSE x \in names : \A y \in names \ {x} : LexLess(x, y)
         IN  <<k>> \o sorted_names(names \ {k})

\* line 319: the users whose snapshot files exist in the save's folder, in the
\* order of their paths <user>.txt
SnapshotUsers(store, save_safe) ==
    LET users == {k[2] : k \in {x \in DOMAIN store : x[1] = save_safe}}
        paths == sorted_names({u \o <<".">> : u \in users})
    IN  [i \in 1..Len(paths) |-> SubSeq(paths[i], 1, Len(paths[i]) - 1)]

\* lines 326-328: keep latest vessel entries per guid
FoldScanners(scanners, blks) ==
    [g \in DOMAIN scanners \cup DOMAIN blks |->
        IF g \in DOMAIN blks THEN blks[g] ELSE scanners[g]]

\* lines 330-337: OR coverage maps per body
FoldBodies(bodies, blks) ==
    [n \in DOMAIN bodies \cup DOMAIN blks |->
        IF n \notin DOMAIN blks THEN bodies[n]
        ELSE IF n \notin DOMAIN bodies THEN blks[n]
        ELSE _replace_map(bodies[n], _map_union(_extract_map(bodies[n]), _extract_map(blks[n])))]

\* lines 319-337: the loop over the snapshot texts, in the order given
RECURSIVE FoldSnapshots(_, _)
FoldSnapshots(texts, acc) ==
    IF texts = <<>> THEN acc
    ELSE FoldSnapshots(Tail(texts),
             [scanners |-> FoldScanners(acc.scanners, _blocks_by("Vessel", texts[1])),
              bodies |-> FoldBodies(acc.bodies, _blocks_by("Body", texts[1]))])

\* lines 356-358 and 363-365: the lines of the blocks, in the order of the keys
RECURSIVE BlockLines(_, _)
BlockLines(blocks, keys) ==
    IF keys = <<>> THEN <<>>
    ELSE splitlines(blocks[keys[1]]) \o BlockLines(blocks, Tail(keys))

\* lines 346-374: the canonical SCENARIO node
Canonical(acc) ==
    join(<< <<Word("SCENARIO")>>, <<Open>>,
            <<Tok("name =", <<>>, <<>>), Word("SCANcontroller")>>,
            <<Tok("scene =", <<>>, <<>>)>>,
            <<Word("Scanners")>>, <<Open>> >>
         \o BlockLines(acc.scanners, sorted_names(DOMAIN acc.scanners))
         \o << <<Close>>, <<Word("Progress")>>, <<Open>> >>
         \o BlockLines(acc.bodies, sorted_names(DOMAIN acc.bodies))
         \o << <<Close>>, <<Close>> >>) \o <<NL>>

\* lines 307-375: the text written to <save>/SCANcontroller.txt
_merge_scansat(store, save_safe) ==
    LET users == SnapshotUsers(store, save_safe)
        texts == [i \in 1..Len(users) |-> store[<<save_safe, users[i]>>]]
    IN  Canonical(FoldSnapshots(texts, [scanners |-> EmptyMap, bodies |-> EmptyMap]))

\* lines 301-305: the user of the request, NoUser when none is sent or no
\* character of the name is kept
_resolve_user_from_request(u) == IF u = Missing THEN NoUser ELSE SelectSeq(u, SafeChar)

\* serverold.py, POST /scenarios/<save>/SCANcontroller (lines 385-392, 593-610)
upload_SCANcontroller_old(save, u, new_data) ==
    LET user == _resolve_user_from_request(u)
    IN  /\ IF user = NoUser
           THEN /\ last' = Served("upload_SCANcontroller", <<safe_path_seg(save)>>, user,
                                  new_data, 400, "Missing user")
                /\ UNCHANGED scans
           ELSE /\ scans' = Put(scans, <<safe_path_seg(save), user>>, new_data \o <<NL>>)
                /\ last' = Served("upload_SCANcontroller", <<safe_path_seg(save)>>, user,
                                  new_data, 200, "OK")
        /\ UNCHANGED <<others, VOTES, PRESENCE, now, points, techtree, archives, uploaded, pc, loc>>

\* serverold.py, GET /scenarios/<save>/SCANcontroller (lines 614-624)
download_SCANcontroller_old(save) ==
    /\ last' = Served("download_SCANcontroller", <<safe_path_seg(save)>>, NoUser, NoArg,
                      200, _merge_scansat(scans, safe_path_seg(save)))
    /\ UNCHANGED <<others, VOTES, PRESENCE, now, points, techtree, archives, uploaded, scans, pc, loc>>

-----------------------------------------------------------------------------
(* SCANcontroller snapshots on the current server (src/Source/server.py)    *)

NoBlock == [found |-> FALSE, blk |-> <<>>, end |-> 0]

\* lines 233-242: from place k on, the place of the brace that brings the
\* depth back to 0; 0 when the text ends first
RECURSIVE MatchingBrace(_, _, _)
MatchingBrace(s, k, depth) ==
    IF k > Len(s) THEN 0
    ELSE IF s[k] = Open THEN MatchingBrace(s, k + 1, depth + 1)
    ELSE IF s[k] = Close
    THEN IF depth - 1 = 0 THEN k ELSE MatchingBrace(s, k + 1, depth - 1)
    ELSE MatchingBrace(s, k + 1, depth)

\* lines 223-242; places count from 1, end is the place after the block
_find_block_at(s, hdr, start) ==
    LET heads == {i \in start..Len(s) : s[i] = Word(hdr)}
    IN  IF heads = {} THEN NoBlock
        ELSE LET i == CHOOSE x \in heads : \A y \in heads : x <= y
                 braces == {j \in i..Len(s) : s[j] = Open}
             IN  IF braces = {} THEN NoBlock
                 ELSE LET j == CHOOSE x \in braces : \A y \in braces : x <= y
                          k == MatchingBrace(s, j, 0)
                      IN  IF k = 0 THEN NoBlock
                          ELSE [found |-> TRUE, blk |-> SubSeq(s, i, k), end |-> k + 1]

\* if not blk.endswith("\n"): blk += "\n"
WithNewline(txt) == IF txt # <<>> /\ txt[Len(txt)] = NL THEN txt ELSE txt \o <<NL>>

\* lines 271-282: the SCENARIO block becomes a bare node, without its
\* "name =" and "scene =" lines
Unwrapped(scen) ==
    LET lines == splitlines(scen)
        renamed == [lines EXCEPT ![1] = <<Word("SCANcontroller")>>]
        keep(ln) == ~(startswith(ln, "name =") \/ startswith(ln, "scene ="))
    IN  WithNewline(join(SelectSeq(renamed, keep)))

\* lines 265-282: the loop over the SCENARIO blocks, from place idx on
RECURSIVE ScenarioLoop(_, _)
ScenarioLoop(s, idx) ==
    LET r == _find_block_at(s, "SCENARIO", idx)
    IN  IF ~r.found THEN <<Word("SCANcontroller"), NL, Open, NL, Close, NL>>
        ELSE IF /\ \E i \in 1..Len(r.blk) : r.blk[i].t = "name ="
                /\ \E i \in 1..Len(r.blk) : r.blk[i] = Word("SCANcontroller")
        THEN Unwrapped(r.blk)
        ELSE ScenarioLoop(s, r.end)

\* lines 244-286
_normalize_scansat(text) ==
    LET r == _find_block_at(text, "SCANcontroller", 1)
    IN  IF r.found THEN WithNewline(r.blk) ELSE ScenarioLoop(text, 1)

\* a variant that keeps one snapshot per save: the upload also replaces the
\* snapshots of the save's other users
upload_SCANcontroller_shared(save, u, new_data) ==
    LET user == _resolve_user_from_request(u)
        k == <<safe_path_seg(save), user>>
        new_norm == _normalize_scansat(new_data)
        op == "upload_SCANcontroller"
    IN  /\ IF user = NoUser
           THEN /\ last' = Served(op, <<safe_path_seg(save)>>, user, new_data, 400, "Missing user")
                /\ UNCHANGED scans
           ELSE /\ scans' = [x \in DOMAIN scans \cup {k} |->
                               IF x[1] = k[1] THEN new_norm ELSE scans[x]]
                /\ last' = Served(op, <<safe_path_seg(save)>>, user, new_data, 200, "OK")
        /\ UNCHANGED <<others, VOTES, PRESENCE, now, points, techtree, archives, uploaded, pc, loc>>

\* POST /scenarios/<save>/SCANcontroller (lines 300-308, 481-506)
upload_SCANcontroller(save, u, new_data) ==
    LET user == _resolve_user_from_request(u)
        k == <<safe_path_seg(save), user>>
        new_norm == _normalize_scansat(new_data)
        op == "upload_SCANcontroller"
    IN  /\ IF user = NoUser
           THEN /\ last' = Served(op, <<safe_path_seg(save)>>, user, new_data, 400, "Missing user")
                /\ UNCHANGED scans
           ELSE IF k \in DOMAIN scans /\ _normalize_scansat(scans[k]) = new_norm
           THEN /\ last' = Served(op, <<safe_path_seg(save)>>, user, new_data, 200, "UNCHANGED")
                /\ UNCHANGED scans
           ELSE /\ scans' = Put(scans, k, new_norm)
                /\ last' = Served(op, <<safe_path_seg(save)>>, user, new_data, 200, "OK")
        /\ UNCHANGED <<others, VOTES, PRESENCE, now, points, techtree, archives, uploaded, pc, loc>>

\* GET /scenarios/<save>/SCANcontroller (lines 508-526)
download_SCANcontroller(save, u) ==
    LET user == _resolve_user_from_request(u)
        k == <<safe_path_seg(save), user>>
        op == "download_SCANcontroller"
    IN  /\ last' = IF user = NoUser
                   THEN Served(op, <<safe_path_seg(save)>>, user, NoArg, 400, <<>>)
                   ELSE Served(op, <<safe_path_seg(save)>>, user, NoArg, 200,
                               IF k \in DOMAIN scans THEN scans[k]
                               ELSE <<Word("SCANcontroller"), NL, Open, NL, Close, NL>>)
        /\ UNCHANGED <<others, VOTES, PRESENCE, now, points, techtree, archives, uploaded, scans, pc, loc>>

-----------------------------------------------------------------------------
(* Block extraction from the text of an upload (src/Source/server.py)       *)

\* lines 348-361, from line i on, with the loop's blocks, block and inside_block
RECURSIVE TechBlocksLoop(_, _, _, _, _)
TechBlocksLoop(lines, i, blocks, block, inside_block) ==
    IF i > Len(lines) THEN blocks
    ELSE LET line == lines[i]
         IN  IF startswith(line, "Tech")
             THEN TechBlocksLoop(lines, i + 1, blocks, <<line>>, TRUE)
             ELSE IF inside_block
             THEN IF line = <<Close>>
                  THEN TechBlocksLoop(lines, i + 1, Append(blocks, join(Append(block, line))),
                                      Append(block, line), FALSE)
                  ELSE TechBlocksLoop(lines, i + 1, blocks, Append(block, line), TRUE)
             ELSE TechBlocksLoop(lines, i + 1, blocks, block, inside_block)

\* lines 348-361
extract_tech_blocks(text) == TechBlocksLoop(splitlines(text), 1, <<>>, <<>>, FALSE)

\* lines 404-419, from line i on, with the loop's blocks, cur and inside
RECURSIVE ScienceBlocksLoop(_, _, _, _, _)
ScienceBlocksLoop(lines, i, blocks, cur, inside) ==
    IF i > Len(lines)
    THEN IF cur # <<>> THEN Append(blocks, join(cur)) ELSE blocks
    ELSE LET line == lines[i]
         IN  IF startswith(line, "Science")
             THEN ScienceBlocksLoop(lines, i + 1,
                      IF inside /\ cur # <<>> THEN Append(blocks, join(cur)) ELSE blocks,
                      <<line>>, TRUE)
             ELSE IF inside
             THEN IF line = <<Close>>
                  THEN ScienceBlocksLoop(lines, i + 1, Append(blocks, join(Append(cur, line))),
                                         <<>>, FALSE)
                  ELSE ScienceBlocksLoop(lines, i + 1, blocks, Append(cur, line), TRUE)
             ELSE ScienceBlocksLoop(lines, i + 1, blocks, cur, inside)

\* text.strip(), for the line breaks at both ends
RECURSIVE strip_text(_)
strip_text(text) ==
    IF text = <<>> THEN text
    ELSE IF text[1] = NL THEN strip_text(Tail(text))
    ELSE IF text[Len(text)] = NL THEN strip_text(SubSeq(text, 1, Len(text) - 1))
    ELSE text

\* lines 402-420
extract_science_blocks(text) ==
    ScienceBlocksLoop(splitlines(strip_text(text)), 1, <<>>, <<>>, FALSE)

\* the extraction functions, each applied to a text for a header keyword
apply_extract_tech_blocks(text) ==
    /\ last' = Served("extract_tech_blocks", NoKey, NoUser, text, 0, extract_tech_blocks(text))
    /\ UNCHANGED <<others, VOTES, PRESENCE, now, points, techtree, archives, uploaded, scans, pc, loc>>

apply_extract_science_blocks(text) ==
    /\ last' = Served("extract_science_blocks", NoKey, NoUser, text, 0,
                      extract_science_blocks(text))
    /\ UNCHANGED <<others, VOTES, PRESENCE, now, points, techtree, archives, uploaded, scans, pc, loc>>

apply_find_block_at(text, hdr) ==
    /\ last' = Served("_find_block_at", <<hdr>>, NoUser, text, 0, _find_block_at(text, hdr, 1))
    /\ UNCHANGED <<others, VOTES, PRESENCE, now, points, techtree, archives, uploaded, scans, pc, loc>>

apply_blocks_by(text, prefix) ==
    /\ last' = Served("_blocks_by", <<prefix>>, NoUser, text, 0, _blocks_by(prefix, text))
    /\ UNCHANGED <<others, VOTES, PRESENCE, now, points, techtree, archives, uploaded, scans, pc, loc>>

-----------------------------------------------------------------------------
(* The server handling one request at a time *)

Init ==
    /\ VOTES = EmptyMap
    /\ PRESENCE = EmptyMap
    /\ now = 0
    /\ points = NoFile
    /\ techtree = NoTree
    /\ last = Served("boot", NoKey, NoUser, NoArg, 0, "")
    /\ pc = Idle
    /\ loc = NoLocals
    /\ archives = NoArchive
    /\ scans = EmptyMap
    /\ others = EmptyMap
    /\ uploaded = EmptyMap

Start == \E s \in RawSaves, t \in RawTechs, u \in RawUsers : vote_start(s, t, u)
Cast == \E s \in RawSaves, t \in RawTechs, u \in RawUsers, b \in BOOLEAN : vote_cast(s, t, u, b)
Status == \E s \in RawSaves, t \in RawTechs : vote_status(s, t)
Cancel == \E s \in RawSaves, t \in RawTechs, u \in RawUsers : vote_cancel(s, t, u)
Heartbeat == \E u \in PresenceUsers : presence_post(u)
Leave == \E u \in PresenceUsers : presence_delete(u)

Next == Start \/ Cast \/ Status \/ Cancel \/ Heartbeat \/ Leave \/ Tick

Spec == Init /\ [][Next]_vars

-----------------------------------------------------------------------------
(* The scenario uploads of one save, one request at a time *)

UploadPoints == \E p \in Payloads : upload_SciencePoints(p)
UploadTech == \E u \in Uploads : Len(techtree.blocks) <= MaxFile /\ upload_TechTree(u)

NextScenario == UploadPoints \/ UploadTech

\* SciencePoints.txt as the server finds it on disk when it starts: none, or
\* one that float() does not accept
PointsOnDisk == {NoFile, Garbage}

InitScenario ==
    /\ VOTES = EmptyMap
    /\ PRESENCE = EmptyMap
    /\ now = 0
    /\ points \in PointsOnDisk
    /\ techtree = NoTree
    /\ last = Served("boot", NoKey, NoUser, NoArg, 0, "")
    /\ pc = Idle
    /\ loc = NoLocals
    /\ archives = NoArchive
    /\ scans = EmptyMap
    /\ others = EmptyMap
    /\ uploaded = EmptyMap

SpecScenario == InitScenario /\ [][NextScenario]_vars

-----------------------------------------------------------------------------
(* SciencePoints uploads of any sign, on a save that starts without a       *)
(* readable SciencePoints.txt                                               *)

PointVals == -8..8

UploadAnyPoints ==
    \E p \in {Num(x) : x \in PointVals} \cup {Garbage} : upload_SciencePoints(p)

SpecFirstPoints == InitScenario /\ [][UploadAnyPoints]_vars

-----------------------------------------------------------------------------
(* Uploads of SciencePoints, TechTree and ScienceArchives of one save, and  *)
(* reads of SciencePoints, one request at a time                            *)

\* a TechTree upload of one block; the block without id carries a cost line
\* here, which the upload never reads and the read of SciencePoints sums
ReadTechUploads == {<<b>> : b \in AllBlocks \cup {Block(<<>>, <<10>>)}}

ReadArchiveUploads ==
    {<<Science(SciA, <<40>>, <<>>)>>, <<Science(SciA, <<>>, <<>>)>>,
     <<Science(SciB, <<60>>, <<>>)>>}

UploadPointsRead == \E p \in {Num(20), Num(30), Garbage} : upload_SciencePoints(p)
UploadTechRead == \E u \in ReadTechUploads : upload_TechTree(u)
UploadArchivesRead == \E u \in ReadArchiveUploads : upload_ScienceArchives(u)
DownloadPoints == download_SciencePoints

NextRead == UploadPointsRead \/ UploadTechRead \/ UploadArchivesRead \/ DownloadPoints

SpecRead == InitScenario /\ [][NextRead]_vars

-----------------------------------------------------------------------------
(* The uploads above, with uploads and reads of modules that have no branch *)

Parts == <<"P", "a", "r", "t", "s">>
PartsSp == <<"P", "a", "r", "t", " ", "s">>
Tech == <<"T", "e", "c", "h">>
OtherModules == {Parts, PartsSp, Tech}

OtherData == {<<"a">>, <<>>}

UploadOther ==
    \E module \in OtherModules, d \in OtherData : upload_scenario_other(Save1, module, d)
DownloadOther == \E module \in OtherModules : download_scenario_other(Save1, module)

NextOther ==
    \/ UploadPointsRead \/ UploadTechRead \/ UploadArchivesRead
    \/ UploadOther \/ DownloadOther

SpecOther == InitScenario /\ [][NextOther]_vars

-----------------------------------------------------------------------------
(* The ScienceArchives uploads of one save, one request at a time *)

MaxScience == 2     \* Science blocks in one ScienceArchives upload

ArchiveUploads == SeqsUpTo(ScienceBlocks, MaxScience)

UploadArchives == \E u \in ArchiveUploads : upload_ScienceArchives(u)

NextArchives == UploadArchives

SpecArchives == Init /\ [][NextArchives]_vars

-----------------------------------------------------------------------------
(* The SCANcontroller uploads and reads of one save on the server that      *)
(* merges the snapshots (src/Server/serverold.py), one request at a time    *)

MaxBodies == 2      \* Body blocks in one snapshot that holds several

BodyK == <<"K">>
BodyM == <<"M">>

Map80 == <<32, 0, B64Pad, B64Pad>>      \* "gA==", the byte 0x80
Map01 == <<0, 16, B64Pad, B64Pad>>      \* "AQ==", the byte 0x01
Map0080 == <<0, 8, 0, B64Pad>>          \* "AIA=", the bytes 0x00 0x80
MapBad == <<32, B64Pad, B64Pad, B64Pad>>    \* "g===", not valid Base64

BodyBlock(name, map) ==
    <<Word("Body"), NL, Open, NL, NameLine(name), NL, MapLine(map), NL, Close>>

RECURSIVE BlockText(_)
BlockText(blocks) ==
    IF blocks = <<>> THEN <<>> ELSE blocks[1] \o <<NL>> \o BlockText(Tail(blocks))

\* a bare SCANcontroller node whose Progress section holds the blocks
BareSnapshot(blocks) ==
    <<Word("SCANcontroller"), NL, Open, NL, Word("Progress"), NL, Open, NL>>
        \o BlockText(blocks) \o <<Close, NL, Close>>

BodyLists ==
    {<<BodyBlock(BodyK, m)>> : m \in {Map80, Map01, Map0080, MapBad}}
        \cup SeqsUpTo({BodyBlock(BodyK, Map80), BodyBlock(BodyM, Map01)}, MaxBodies)

OldSnapshots == {BareSnapshot(b) : b \in BodyLists}

ScanUsers == {UserA, UserBpad, Missing}

UploadScanOld ==
    \E save \in RawSaves, u \in ScanUsers, d \in OldSnapshots :
        upload_SCANcontroller_old(save, u, d)

DownloadScanOld == \E save \in RawSaves : download_SCANcontroller_old(save)

NextScanOld == UploadScanOld \/ DownloadScanOld

SpecScanOld == Init /\ [][NextScanOld]_vars

-----------------------------------------------------------------------------
(* Snapshots that hold Vessel blocks, uploaded to and read from the server  *)
(* that merges the snapshots (src/Server/serverold.py)                      *)

Guid1 == <<"1">>
Guid2 == <<"2">>

\* a Vessel block: its guid and one more line, which tells its versions apart
VesselBlock(guid, state) ==
    <<Word("Vessel"), NL, Open, NL, GuidLine(guid), NL,
      Tok("state =", state, <<>>), NL, Close>>

\* a bare SCANcontroller node whose Scanners section holds the blocks
ScannersSnapshot(blocks) ==
    <<Word("SCANcontroller"), NL, Open, NL, Word("Scanners"), NL, Open, NL>>
        \o BlockText(blocks) \o <<Close, NL, Close>>

VesselLists ==
    {<<>>}
        \cup {<<VesselBlock(g, st)>> : g \in {Guid1, Guid2}, st \in {<<"a">>, <<"b">>}}
        \cup {<<VesselBlock(Guid1, <<"a">>), VesselBlock(Guid2, <<"a">>)>>,
              <<VesselBlock(Guid2, <<"b">>), VesselBlock(Guid1, <<"b">>)>>}

UploadScanners ==
    \E save \in RawSaves, u \in ScanUsers, b \in VesselLists :
        upload_SCANcontroller_old(save, u, ScannersSnapshot(b))

NextScanners == UploadScanners \/ DownloadScanOld

SpecScanners == Init /\ [][NextScanners]_vars

-----------------------------------------------------------------------------
(* The SCANcontroller uploads and reads on the current server               *)
(* (src/Source/server.py), one request at a time                            *)

Save2 == <<"s", "2">>
ScanSaves == {Save1, Save2}

\* the Progress section of a node, holding the Body blocks
ProgressSection(blocks) ==
    <<Word("Progress"), NL, Open, NL>> \o BlockText(blocks) \o <<Close, NL>>

\* a flag line, a node content without braces
FlagLine == <<Tok("overlay =", <<>>, <<>>), NL>>

\* a bare SCANcontroller node around a content
Node(content) == <<Word("SCANcontroller"), NL, Open, NL>> \o content \o <<Close>>

\* a SCENARIO node with name = SCANcontroller and a scene line around a content
Scenario(content) ==
    <<Word("SCENARIO"), NL, Open, NL,
      Tok("name =", <<>>, <<>>), Word("SCANcontroller"), NL,
      Tok("scene =", <<>>, <<>>), NL>> \o content \o <<Close>>

ScanContents == {ProgressSection(<<BodyBlock(BodyK, Map80)>>), FlagLine}

Snapshots == {Node(c) : c \in ScanContents} \cup {Scenario(c) : c \in ScanContents}

UploadScan ==
    \E save \in ScanSaves, u \in ScanUsers, d \in Snapshots : upload_SCANcontroller(save, u, d)

DownloadScan == \E save \in ScanSaves, u \in ScanUsers : download_SCANcontroller(save, u)

NextScan == UploadScan \/ DownloadScan

SpecScan == Init /\ [][NextScan]_vars

-----------------------------------------------------------------------------
(* Block extraction applied to texts that hold plain and nested blocks      *)

\* the line that names a block of the header keyword h
IdLine(h, id) ==
    Tok(IF h = "Vessel" THEN "guid =" ELSE IF h = "Body" THEN "Name =" ELSE "id =", id, <<>>)

\* a block without inner braces
PlainBlock(h, id) == <<Word(h), NL, Open, NL, IdLine(h, id), NL, Close>>

\* a block that holds a sub-block followed by one more line
NestedBlock(h, id) ==
    <<Word(h), NL, Open, NL, IdLine(h, id), NL,
      Word("Sub"), NL, Open, NL, Close, NL,
      Tok("state =", <<>>, <<>>), NL, Close>>

\* a section around a text
Enclosed(text) == <<Word("Section"), NL, Open, NL>> \o text \o <<NL, Close>>

\* a text with one more line after it
Followed(text) == text \o <<NL, Tok("state =", <<>>, <<>>)>>

BlocksOf(h, id) == {PlainBlock(h, id), NestedBlock(h, id)}

TextsOf(h) ==
    LET one == BlocksOf(h, BodyK)
        two == {a \o <<NL>> \o b : a \in BlocksOf(h, BodyK), b \in BlocksOf(h, BodyM)}
    IN  one \cup two \cup {Enclosed(t) : t \in one \cup two}
            \cup {Followed(t) : t \in one \cup two}

ExtractTech == \E text \in TextsOf("Tech") : apply_extract_tech_blocks(text)

ExtractScience == \E text \in TextsOf("Science") : apply_extract_science_blocks(text)

FindBlock ==
    \E hdr \in {"SCANcontroller", "SCENARIO"} : \E text \in TextsOf(hdr) :
        apply_find_block_at(text, hdr)

BlocksBy ==
    \E prefix \in {"Vessel", "Body"} : \E text \in TextsOf(prefix) :
        apply_blocks_by(text, prefix)

NextBlocks == ExtractTech \/ ExtractScience \/ FindBlock \/ BlocksBy

SpecBlocks == Init /\ [][NextBlocks]_vars

-----------------------------------------------------------------------------
(* Requests served by concurrent threads (Flask's threaded server; no lock *)
(* guards VOTES or the scenario files).  A thread runs its handler line by *)
(* line; pc[t] is the line it runs next, loc[t] the handler's locals.      *)

SetPc(t, line) == pc' = [pc EXCEPT ![t] = line]
SetLoc(t, locals) == loc' = [loc EXCEPT ![t] = locals]
Done(t) == pc' = [pc EXCEPT ![t] = "idle"] /\ loc' = [loc EXCEPT ![t] = EmptyMap]

\* vote_cast, lines 603-609: parse the request, check that the vote is open
cast_check(t, save, tech, user, vote) ==
    LET k == _key(save, tech)
        u == CallerOf(user)
    IN  /\ pc[t] = "idle"
        /\ IF IsOpen(VOTES, k)
           THEN /\ SetPc(t, "cast610")
                /\ SetLoc(t, [k |-> k, user |-> u, vote |-> vote, yes |-> 0, no |-> 0])
                /\ last' = last
           ELSE /\ last' = Served("cast", k, u, <<vote>>, 400, "No open vote")
                /\ UNCHANGED <<others, archives, uploaded, scans, pc, loc>>
        /\ UNCHANGED <<others, archives, uploaded, scans, VOTES, PRESENCE, now, points, techtree>>

\* line 610: VOTES[k]['votes'][user] = vote
cast_record(t) ==
    /\ pc[t] = "cast610"
    /\ VOTES' = [VOTES EXCEPT ![loc[t].k].votes = Put(@, loc[t].user, loc[t].vote)]
    /\ SetPc(t, "cast611")
    /\ UNCHANGED <<others, archives, uploaded, scans, PRESENCE, now, points, techtree, last, loc>>

\* line 611: yes = sum(...)
cast_yes(t) ==
    /\ pc[t] = "cast611"
    /\ SetLoc(t, [loc[t] EXCEPT !.yes = YesCount(VOTES[loc[t].k].votes)])
    /\ SetPc(t, "cast612")
    /\ UNCHANGED <<others, archives, uploaded, scans, VOTES, PRESENCE, now, points, techtree, last>>

\* line 612: no = sum(...)
cast_no(t) ==
    /\ pc[t] = "cast612"
    /\ SetLoc(t, [loc[t] EXCEPT !.no = NoCount(VOTES[loc[t].k].votes)])
    /\ SetPc(t, "cast613")
    /\ UNCHANGED <<others, archives, uploaded, scans, VOTES, PRESENCE, now, points, techtree, last>>

\* lines 613-615 and 618: n = yes + no; below the quorum the handler returns
cast_quorum(t) ==
    /\ pc[t] = "cast613"
    /\ IF loc[t].yes + loc[t].no >= VOTES[loc[t].k].quorum
       THEN SetPc(t, "cast616") /\ UNCHANGED <<others, archives, uploaded, scans, loc, last>>
       ELSE /\ Done(t)
            /\ last' = Served("cast", loc[t].k, loc[t].user, <<loc[t].vote>>, 200, "OK")
    /\ UNCHANGED <<others, archives, uploaded, scans, VOTES, PRESENCE, now, points, techtree>>

\* line 616: VOTES[k]['closed'] = True
cast_close(t) ==
    /\ pc[t] = "cast616"
    /\ VOTES' = [VOTES EXCEPT ![loc[t].k].closed = TRUE]
    /\ SetPc(t, "cast617")
    /\ UNCHANGED <<others, archives, uploaded, scans, PRESENCE, now, points, techtree, last, loc>>

\* lines 617-618: VOTES[k]['approved'] = (yes > no); return 'OK'
cast_approve(t) ==
    /\ pc[t] = "cast617"
    /\ VOTES' = [VOTES EXCEPT ![loc[t].k].approved = Approved(loc[t].yes, loc[t].no)]
    /\ Done(t)
    /\ last' = Served("cast", loc[t].k, loc[t].user, <<loc[t].vote>>, 200, "OK")
    /\ UNCHANGED <<others, archives, uploaded, scans, PRESENCE, now, points, techtree>>

ConcTech == Tech1

CastCheck == \E t \in Threads, u \in RawUsers, b \in BOOLEAN : cast_check(t, Save1, ConcTech, u, b)
CastRecord == \E t \in Threads : cast_record(t)
CastYes == \E t \in Threads : cast_yes(t)
CastNo == \E t \in Threads : cast_no(t)
CastQuorum == \E t \in Threads : cast_quorum(t)
CastClose == \E t \in Threads : cast_close(t)
CastApprove == \E t \in Threads : cast_approve(t)
StartConc == vote_start(Save1, ConcTech, UserA)

NextCast ==
    \/ StartConc \/ Heartbeat
    \/ CastCheck \/ CastRecord \/ CastYes \/ CastNo \/ CastQuorum \/ CastClose \/ CastApprove

SpecCast == Init /\ [][NextCast]_vars

-----------------------------------------------------------------------------
(* Two SciencePoints uploads served by concurrent threads, each thread one  *)
(* request.  The thread keeps its response in loc[t].resp.                  *)

\* upload_scenario, lines 308-314: parse the payload
sp_parse(t, payload) ==
    /\ pc[t] = "idle"
    /\ IF Parses(payload)
       THEN SetPc(t, "sp315") /\ SetLoc(t, [new |-> payload, old |-> NoFile, resp |-> ""])
       ELSE SetPc(t, "done") /\ SetLoc(t, [new |-> payload, old |-> NoFile, resp |-> "Invalid format"])
    /\ UNCHANGED <<others, archives, uploaded, scans, VOTES, PRESENCE, now, points, techtree, last>>

\* line 315: if os.path.exists(path)
sp_exists(t) ==
    /\ pc[t] = "sp315"
    /\ SetPc(t, IF Exists(points) THEN "sp317" ELSE "sp326")
    /\ UNCHANGED <<others, archives, uploaded, scans, VOTES, PRESENCE, now, points, techtree, last, loc>>

\* lines 317-318: read and parse the stored value; float() raising leads to 323
sp_read(t) ==
    /\ pc[t] = "sp317"
    /\ IF Parses(points)
       THEN SetPc(t, "sp319") /\ SetLoc(t, [loc[t] EXCEPT !.old = points])
       ELSE SetPc(t, "sp323") /\ UNCHANGED loc
    /\ UNCHANGED <<others, archives, uploaded, scans, VOTES, PRESENCE, now, points, techtree, last>>

\* line 319: if new_value > old_value
sp_compare(t) ==
    /\ pc[t] = "sp319"
    /\ IF loc[t].new.v > loc[t].old.v
       THEN SetPc(t, "sp320") /\ UNCHANGED loc
       ELSE SetPc(t, "done") /\ SetLoc(t, [loc[t] EXCEPT !.resp = "OK"])
    /\ UNCHANGED <<others, archives, uploaded, scans, VOTES, PRESENCE, now, points, techtree, last>>

\* lines 320, 323, 326: open(path, "w") leaves the file empty
sp_open(t) ==
    /\ pc[t] \in {"sp320", "sp323", "sp326"}
    /\ points' = Garbage
    /\ SetPc(t, "sp_write")
    /\ UNCHANGED <<others, archives, uploaded, scans, VOTES, PRESENCE, now, techtree, last, loc>>

\* lines 321, 324, 327: the value is written as the file is closed
sp_write(t) ==
    /\ pc[t] = "sp_write"
    /\ points' = Num(ReprFloat(loc[t].new.v))
    /\ SetPc(t, "done")
    /\ SetLoc(t, [loc[t] EXCEPT !.resp = "OK"])
    /\ UNCHANGED <<others, archives, uploaded, scans, VOTES, PRESENCE, now, techtree, last>>

\* the file on disk when the two requests arrive: none, or an earlier upload
StoredBefore == {NoFile} \cup {Num(x) : x \in {20}}

InitPoints ==
    /\ VOTES = EmptyMap
    /\ PRESENCE = EmptyMap
    /\ now = 0
    /\ points \in StoredBefore
    /\ techtree = NoTree
    /\ last = Served("boot", NoKey, NoUser, points, 0, "")
    /\ pc = Idle
    /\ loc = NoLocals
    /\ archives = NoArchive
    /\ scans = EmptyMap
    /\ others = EmptyMap
    /\ uploaded = EmptyMap

SpParse == \E t \in Threads, p \in Payloads : sp_parse(t, p)
SpExists == \E t \in Threads : sp_exists(t)
SpRead == \E t \in Threads : sp_read(t)
SpCompare == \E t \in Threads : sp_compare(t)
SpOpen == \E t \in Threads : sp_open(t)
SpWrite == \E t \in Threads : sp_write(t)

NextPoints == SpParse \/ SpExists \/ SpRead \/ SpCompare \/ SpOpen \/ SpWrite

SpecPoints == InitPoints /\ [][NextPoints]_vars

-----------------------------------------------------------------------------
(* Two TechTree uploads served by concurrent threads, each thread one       *)
(* request.  loc[t].new is the upload, loc[t].merged and loc[t].cost what   *)
(* the merge loop computed, loc[t].np the new_points of line 392.           *)

\* upload_scenario, lines 308 and 363-364: parse the upload
tt_parse(t, new_blocks) ==
    /\ pc[t] = "idle"
    /\ SetPc(t, "tt366")
    /\ SetLoc(t, [new |-> new_blocks, merged |-> <<>>, cost |-> 0, np |-> 0])
    /\ UNCHANGED <<others, archives, uploaded, scans, VOTES, PRESENCE, now, points, techtree, last>>

\* line 366: if os.path.exists(path)
tt_exists(t) ==
    /\ pc[t] = "tt366"
    /\ SetPc(t, IF Exists(techtree) THEN "tt367" ELSE "tt398")
    /\ UNCHANGED <<others, archives, uploaded, scans, VOTES, PRESENCE, now, points, techtree, last, loc>>

\* lines 367-382: read the file and run the merge loop on what was read
tt_read(t) ==
    /\ pc[t] = "tt367"
    /\ LET added == NewBlocks(loc[t].new, TechIds(techtree.blocks))
       IN  SetLoc(t, [loc[t] EXCEPT !.merged = techtree.blocks \o added,
                                    !.cost = SumCosts(added, loc[t].new)])
    /\ SetPc(t, "tt384")
    /\ UNCHANGED <<others, archives, uploaded, scans, VOTES, PRESENCE, now, points, techtree, last>>

\* lines 384, 398: open(path, "w") leaves the file empty
tt_open(t) ==
    /\ pc[t] \in {"tt384", "tt398"}
    /\ techtree' = Tree(<<>>)
    /\ SetPc(t, IF pc[t] = "tt384" THEN "tt385" ELSE "tt399")
    /\ UNCHANGED <<others, archives, uploaded, scans, VOTES, PRESENCE, now, points, last, loc>>

\* line 385: the merged blocks are written; line 399: the upload is written
tt_write(t) ==
    /\ pc[t] \in {"tt385", "tt399"}
    /\ techtree' = Tree(IF pc[t] = "tt385" THEN loc[t].merged ELSE loc[t].new)
    /\ SetPc(t, IF pc[t] = "tt385" THEN "tt388" ELSE "done")
    /\ UNCHANGED <<others, archives, uploaded, scans, VOTES, PRESENCE, now, points, last, loc>>

\* line 388: if os.path.exists(points_path)
tt_points_exists(t) ==
    /\ pc[t] = "tt388"
    /\ SetPc(t, IF Exists(points) THEN "tt390" ELSE "done")
    /\ UNCHANGED <<others, archives, uploaded, scans, VOTES, PRESENCE, now, points, techtree, last, loc>>

\* lines 390-392: read the points and take the cost off; float() raising
\* leads to the bare except of line 395
tt_points_read(t) ==
    /\ pc[t] = "tt390"
    /\ IF Parses(points)
       THEN /\ SetPc(t, "tt393")
            /\ SetLoc(t, [loc[t] EXCEPT !.np = Max2(0, points.v - loc[t].cost)])
       ELSE SetPc(t, "done") /\ UNCHANGED loc
    /\ UNCHANGED <<others, archives, uploaded, scans, VOTES, PRESENCE, now, points, techtree, last>>

\* line 393: open(points_path, "w") leaves the file empty
tt_points_open(t) ==
    /\ pc[t] = "tt393"
    /\ points' = Garbage
    /\ SetPc(t, "tt394")
    /\ UNCHANGED <<others, archives, uploaded, scans, VOTES, PRESENCE, now, techtree, last, loc>>

\* line 394: the new points are written with six decimals
tt_points_write(t) ==
    /\ pc[t] = "tt394"
    /\ points' = Num(Fmt6(loc[t].np))
    /\ SetPc(t, "done")
    /\ UNCHANGED <<others, archives, uploaded, scans, VOTES, PRESENCE, now, techtree, last, loc>>

\* the files on disk when the two requests arrive
TreeBefore == {NoTree, Tree(<<Block(Tech1, <<10>>)>>)}
PointsBefore == {NoFile, Num(40)}
\* what the two clients send
ThreadUploads == {<<Block(Tech2, <<10>>)>>, <<Block(Tech2, <<>>)>>, <<Block(Tech1, <<10>>)>>}

InitTech ==
    /\ VOTES = EmptyMap
    /\ PRESENCE = EmptyMap
    /\ now = 0
    /\ points \in PointsBefore
    /\ techtree \in TreeBefore
    /\ last = Served("boot", NoKey, NoUser, [tree |-> techtree, points |-> points], 0, "")
    /\ pc = Idle
    /\ loc = NoLocals
    /\ archives = NoArchive
    /\ scans = EmptyMap
    /\ others = EmptyMap
    /\ uploaded = EmptyMap

TtParse == \E t \in Threads, u \in ThreadUploads : tt_parse(t, u)
TtExists == \E t \in Threads : tt_exists(t)
TtRead == \E t \in Threads : tt_read(t)
TtOpen == \E t \in Threads : tt_open(t)
TtWrite == \E t \in Threads : tt_write(t)
TtPointsExists == \E t \in Threads : tt_points_exists(t)
TtPointsRead == \E t \in Threads : tt_points_read(t)
TtPointsOpen == \E t \in Threads : tt_points_open(t)
TtPointsWrite == \E t \in Threads : tt_points_write(t)

NextTech ==
    \/ TtParse \/ TtExists \/ TtRead \/ TtOpen \/ TtWrite
    \/ TtPointsExists \/ TtPointsRead \/ TtPointsOpen \/ TtPointsWrite

SpecTech == InitTech /\ [][NextTech]_vars

-----------------------------------------------------------------------------
(* Votes on a tech and TechTree uploads of the same tech, one request at a  *)
(* time: the client is meant to upload a Tech block once its vote passed.   *)

GateTechs == {Tech1, Tech2}
GateUploads == {<<Block(t, <<16>>)>> : t \in GateTechs}

GateStart == \E t \in GateTechs : vote_start(Save1, t, UserA)
GateCast == \E t \in GateTechs, b \in BOOLEAN : vote_cast(Save1, t, UserA, b)
GateCancel == \E t \in GateTechs : vote_cancel(Save1, t, UserA)
GateUpload == \E u \in GateUploads : upload_TechTree(u)

NextGate == GateStart \/ GateCast \/ GateCancel \/ GateUpload

SpecGate == Init /\ [][NextGate]_vars

-----------------------------------------------------------------------------
(* Properties of the vote coordinator, one request at a time (Spec) *)

HasSession(k) == k \in DOMAIN VOTES
Ballots(v) == DOMAIN v.votes
Yes(v) == Cardinality({u \in DOMAIN v.votes : v.votes[u] = TRUE})
No(v) == Cardinality({u \in DOMAIN v.votes : v.votes[u] = FALSE})
OnlineCount == Cardinality({u \in DOMAIN PRESENCE : PRESENCE[u] + 30 > now})
PyBool(b) == IF b THEN "True" ELSE "False"

\* C1: once the session of a key is closed, no cast, cancel or status on that
\* key changes its closed flag or its approved value; only a new start on the
\* key does.
ClosedSessionIsFinal ==
    [][\A k \in DOMAIN VOTES :
          (VOTES[k].closed /\ ~(last'.op = "start" /\ last'.key = k))
          => /\ VOTES'[k].closed = VOTES[k].closed
             /\ VOTES'[k].approved = VOTES[k].approved]_vars

\* C4: a cast on an open session records the caller's ballot; with the
\* distinct voters at quorum the session closes with approved = (yes > no),
\* a tie rejecting, and below quorum it stays open with approved unknown.
\* Quorum 1: the first cast decides.  Quorum 2: one yes and one no reject.
CastTalliesAndCloses ==
    [][\A k \in DOMAIN VOTES :
          (last'.op = "cast" /\ last'.key = k /\ ~VOTES[k].closed)
          => LET v == VOTES[k]
                 w == VOTES'[k]
                 u == last'.user
                 b == last'.arg[1]
             IN  /\ Ballots(w) = Ballots(v) \cup {u}
                 /\ w.votes[u] = b
                 /\ \A x \in Ballots(v) \ {u} : w.votes[x] = v.votes[x]
                 /\ w.quorum = v.quorum /\ w.requester = v.requester
                 /\ IF Cardinality(Ballots(w)) >= v.quorum
                    THEN w.closed /\ w.approved = PyBool(Yes(w) > No(w))
                    ELSE ~w.closed /\ w.approved = "None"
                 /\ (v.quorum = 1 => w.closed /\ w.approved = PyBool(b))
                 /\ (v.quorum = 2 /\ Yes(w) = 1 /\ No(w) = 1
                       => w.closed /\ w.approved = "False")]_vars

\* a tie at quorum 2 has just closed the session as rejected
CastTalliesAndCloses_witness ==
    /\ last.op = "cast" /\ last.code = 200
    /\ HasSession(last.key)
    /\ LET v == VOTES[last.key]
       IN  v.quorum = 2 /\ Yes(v) = 1 /\ No(v) = 1 /\ v.closed /\ v.approved = "False"

\* C5: a cast for a key with no session, or with a closed one, is answered
\* 400 'No open vote' and leaves the whole vote store as it was.
LateCastRejected ==
    [][\A k \in Keys :
          (last'.op = "cast" /\ last'.key = k /\ (~HasSession(k) \/ VOTES[k].closed))
          => /\ last'.code = 400 /\ last'.body = "No open vote"
             /\ VOTES' = VOTES]_vars

\* a cast has just been rejected on a session that was closed as approved
LateCastRejected_witness ==
    /\ last.op = "cast" /\ last.code = 400 /\ last.arg = <<FALSE>>
    /\ HasSession(last.key)
    /\ VOTES[last.key].closed /\ VOTES[last.key].approved = "True"
    /\ \E k \in Keys : ~HasSession(k)

\* C6: start leaves the session of the key open, without ballots, approved
\* unknown, with quorum 1 when at most one user is online and 2 otherwise;
\* so the quorum of every session is 1 or 2.
StartOpensWithQuorum ==
    /\ [](\A k \in DOMAIN VOTES : VOTES[k].quorum \in {1, 2})
    /\ [][last'.op = "start"
          => /\ last'.key \in DOMAIN VOTES'
             /\ LET w == VOTES'[last'.key]
                IN  /\ ~w.closed /\ w.approved = "None" /\ Ballots(w) = {}
                    /\ w.requester = last'.user
                    /\ w.quorum = IF OnlineCount <= 1 THEN 1 ELSE 2
             /\ \A k \in DOMAIN VOTES \ {last'.key} :
                   k \in DOMAIN VOTES' /\ VOTES'[k] = VOTES[k]]_vars

\* a start with two users online has just opened a session of quorum 2
StartOpensWithQuorum_witness ==
    /\ last.op = "start" /\ OnlineCount = 2
    /\ VOTES[last.key].quorum = 2 /\ ~VOTES[last.key].closed
    /\ \E k \in DOMAIN VOTES : VOTES[k].quorum = 1

StatusReadsOnly ==
    [][last'.op = "status"
          => /\ VOTES' = VOTES
             /\ last'.code = 200
             /\ IF HasSession(last'.key)
                THEN LET v == VOTES[last'.key]
                     IN  last'.body = [requester |-> v.requester, yes |-> Yes(v),
                                       no |-> No(v), decided |-> v.closed,
                                       approved |-> v.approved]
                ELSE last'.body = [decided |-> FALSE]]_vars

\* status has just reported an open session with one yes, and a key is still
\* without session
StatusReadsOnly_witness ==
    /\ last.op = "status"
    /\ HasSession(last.key)
    /\ last.body.yes = 1 /\ last.body.no = 0 /\ ~last.body.decided
    /\ \E k \in Keys : ~HasSession(k)

-----------------------------------------------------------------------------
(* Properties of concurrent casts (SpecCast) *)

StartOn(k) ==
    \E sv \in RawSaves, t \in RawTechs, u \in RawUsers :
        _key(sv, t) = k /\ vote_start(sv, t, u)

\* C2: concurrent casts on one session behave as casts run one after the
\* other: once the session is closed no ballot is added or overwritten, it
\* stays closed, its approved value is the tally of the ballots it holds and
\* is not changed again.
ConcurrentCastsSerialize ==
    [][\A k \in DOMAIN VOTES :
          (VOTES[k].closed /\ ~StartOn(k))
          => /\ VOTES'[k].votes = VOTES[k].votes
             /\ VOTES'[k].closed
             /\ IF VOTES[k].approved = "None"
                THEN VOTES'[k].approved \in {"None", PyBool(Yes(VOTES[k]) > No(VOTES[k]))}
                ELSE VOTES'[k].approved = VOTES[k].approved]_vars

-----------------------------------------------------------------------------
(* Properties of the scenario uploads *)

\* C3: a tech id enters the converged TechTree only when the vote session of
\* (save, id) is closed with approved = true.
TechTreeGatedByVote ==
    [][\A id \in TechIds(techtree'.blocks) \ TechIds(techtree.blocks) :
          LET k == _key(Save1, id)
          IN  HasSession(k) /\ VOTES[k].closed /\ VOTES[k].approved = "True"]_vars

\* C3, as amended: the upload does not look at the vote store; it adds every
\* id it carries that is not yet in the converged TechTree, whether the vote
\* session of (save, id) is missing, open, rejected or approved, and it leaves
\* the vote store as it was.
TechTreeIgnoresVotes ==
    [][\A u \in GateUploads :
          upload_TechTree(u)
          => /\ TechIds(techtree'.blocks) = TechIds(techtree.blocks) \cup TechIds(u)
             /\ VOTES' = VOTES]_vars

\* an upload has just added a tech whose vote was closed as rejected
TechTreeIgnoresVotes_witness ==
    /\ last.op = "upload_TechTree" /\ last.arg # {}
    /\ \E id \in last.arg :
          /\ HasSession(_key(Save1, id))
          /\ VOTES[_key(Save1, id)].closed
          /\ VOTES[_key(Save1, id)].approved = "False"

\* C9: a valid SciencePoints upload v against a stored number s leaves
\* max(s, v); the stored number never decreases except by a TechTree upload.
PointsHighWaterMark ==
    [][/\ (last'.op = "upload_SciencePoints" /\ last'.arg.st = "num" /\ points.st = "num")
            => points' = Num(Max2(points.v, last'.arg.v))
       /\ points.st = "num"
            => /\ points'.st = "num"
               /\ points'.v < points.v => last'.op = "upload_TechTree"]_vars

\* an upload smaller than the stored number has just been discarded, after a
\* deduction had lowered the stored number
PointsHighWaterMark_witness ==
    /\ last.op = "upload_SciencePoints" /\ last.code = 200
    /\ points.st = "num" /\ last.arg.v < points.v
    /\ points.v \notin UploadVals

SetMax(S) == CHOOSE x \in S : \A y \in S : y <= x

AllDone == \A t \in Threads : pc[t] = "done"

Offered == {x \in {last.arg} \cup {loc[t].new : t \in Threads} : x.st = "num"}

\* C10: after two concurrent SciencePoints uploads the stored value is the
\* maximum of the value stored before and the two uploaded values.
ConcurrentUploadsKeepMax ==
    AllDone =>
        IF Offered = {} THEN points = last.arg
        ELSE points = Num(SetMax({x.v : x \in Offered}))

-----------------------------------------------------------------------------
(* Properties of concurrent TechTree uploads (SpecTech) *)

\* the files one upload leaves when it runs alone
SerialUpload(files, new_blocks) ==
    IF Exists(files.tree)
    THEN LET added == NewBlocks(new_blocks, TechIds(files.tree.blocks))
         IN  [tree |-> Tree(files.tree.blocks \o added),
              points |-> Deduct(files.points, SumCosts(added, new_blocks))]
    ELSE [tree |-> Tree(new_blocks), points |-> files.points]

TimesIn(blocks, id) == Cardinality({i \in DOMAIN blocks : blocks[i].id = id})

\* C11: two concurrent TechTree uploads that carry the same not-yet-present id
\* leave the files as one of the two serial orders of the uploads would: the
\* id is in the TechTree once and its cost is taken off SciencePoints once.
ConcurrentTechUploadsSerialize ==
    (/\ \A t \in Threads : pc[t] = "done"
     /\ TechIds(loc[1].new) = TechIds(loc[2].new)
     /\ TechIds(loc[1].new) \cap TechIds(last.arg.tree.blocks) = {})
    => /\ [tree |-> techtree, points |-> points]
            \in {SerialUpload(SerialUpload(last.arg, loc[1].new), loc[2].new),
                 SerialUpload(SerialUpload(last.arg, loc[2].new), loc[1].new)}
       /\ \A id \in TechIds(loc[1].new) : TimesIn(techtree.blocks, id) = 1

-----------------------------------------------------------------------------
(* Properties of the TechTree merge, one request at a time (SpecScenario) *)

RECURSIVE SetSum(_, _)
SetSum(S, f) ==
    IF S = {} THEN 0
    ELSE LET x == CHOOSE y \in S : TRUE
         IN  f[x] + SetSum(S \ {x}, f)

\* the ids of a TechTree file, none for a missing file
IdsOf(tree) == {tree.blocks[i].id : i \in DOMAIN tree.blocks} \ {<<>>}

\* the largest cost an upload names for an id, 0 when it names none
PriceIn(new_blocks, id) ==
    LET named == {new_blocks[i].cost[1] :
                    i \in {j \in DOMAIN new_blocks :
                             new_blocks[j].id = id /\ new_blocks[j].cost # <<>>}}
    IN  IF named = {} THEN 0 ELSE SetMax(named)

\* the cost of the ids a step brought into the TechTree, each taken once
PriceOfNew(new_blocks) ==
    SetSum(IdsOf(techtree') \ IdsOf(techtree),
           [id \in IdsOf(techtree') \ IdsOf(techtree) |-> PriceIn(new_blocks, id)])

\* C12: after every TechTree upload, the first one and one with the same id
\* in two blocks included, each id is in at most one block of the converged
\* TechTree, and the upload takes off SciencePoints at most the cost of each
\* new id once.
NoIdTwiceNorChargedTwice ==
    [][/\ \A id \in IdsOf(techtree') : TimesIn(techtree'.blocks, id) <= 1
       /\ \A u \in Uploads :
             (upload_TechTree(u) /\ points.st = "num")
             => points'.st = "num" /\ points.v - points'.v <= PriceOfNew(u)]_vars

\* the block carries an id that the stored TechTree does not hold
Fresh(block) == block.id # <<>> /\ block.id \notin IdsOf(techtree)

\* C13: an upload against a stored TechTree keeps every stored block, in its
\* place and unchanged, and appends exactly the blocks of the upload that
\* carry an id which is not among the stored ids; a block whose id is stored
\* is dropped whatever it holds.
MergeAddsOnlyNewIds ==
    [][\A u \in Uploads :
          (upload_TechTree(u) /\ techtree.st = "file")
          => LET n == Len(techtree.blocks)
                 m == Len(techtree'.blocks)
             IN  /\ m >= n
                 /\ SubSeq(techtree'.blocks, 1, n) = techtree.blocks
                 /\ SubSeq(techtree'.blocks, n + 1, m) = SelectSeq(u, Fresh)
                 /\ \A i \in DOMAIN u :
                       u[i].id \in IdsOf(techtree)
                       => TimesIn(techtree'.blocks, u[i].id) = TimesIn(techtree.blocks, u[i].id)]_vars

\* a merge has just appended T2 behind the stored T1
MergeAddsOnlyNewIds_witness ==
    /\ last.op = "upload_TechTree" /\ last.arg = {Tech2}
    /\ Len(techtree.blocks) = 2
    /\ techtree.blocks[1] = Block(Tech1, <<10>>)
    /\ techtree.blocks[2] = Block(Tech2, <<16>>)

\* the number has at most six decimals, so that writing it with six keeps it
SixDecimals(x) == x % 10 = 0

Priced(new_blocks) == {i \in DOMAIN new_blocks : new_blocks[i].cost # <<>>}

\* C14: an upload against a stored TechTree and a stored number of points
\* leaves the points lowered by the costs of the ids it brought in, each id
\* counted once and an id without cost counted as 0, and never below zero.
\* (Stated for points and costs of at most six decimals.)
DeductsCostOfNewIds ==
    [][\A u \in Uploads :
          (/\ upload_TechTree(u) /\ techtree.st = "file" /\ points.st = "num"
           /\ SixDecimals(points.v)
           /\ \A i \in Priced(u) : SixDecimals(u[i].cost[1]))
          => points' = Num(Max2(0, points.v - PriceOfNew(u)))]_vars

\* C15: every id an upload brings into the converged TechTree has its cost
\* taken off the stored SciencePoints by that upload, also when the save had
\* no TechTree before.
EveryNewIdIsCharged ==
    [][\A u \in Uploads :
          (upload_TechTree(u) /\ points.st = "num")
          => points'.st = "num" /\ points'.v <= Max2(0, points.v - PriceOfNew(u))]_vars

\* the cost line that counts for an id of an upload: the last one
LastPrice(new_blocks, id) ==
    LET at == {i \in Priced(new_blocks) : new_blocks[i].id = id}
    IN  IF at = {} THEN 0 ELSE new_blocks[SetMax(at)].cost[1]

\* what a merge takes off: the cost of its id for every block it appends
ChargedFor(new_blocks) ==
    LET fresh == {i \in DOMAIN new_blocks : Fresh(new_blocks[i])}
    IN  SetSum(fresh, [i \in fresh |-> LastPrice(new_blocks, new_blocks[i].id)])

\* C15, as amended: an upload against a stored TechTree takes the cost of
\* every block it appends off a stored number of points (never below zero,
\* written with six decimals) and leaves a missing or unreadable points file
\* alone; the first TechTree upload of a save is stored as it is and takes
\* nothing off, also when the save has SciencePoints.
OnlyMergesCharge ==
    [][\A u \in Uploads :
          upload_TechTree(u)
          => IF techtree.st = "file"
             THEN IF points.st = "num"
                  THEN points' = Num(Fmt6(Max2(0, points.v - ChargedFor(u))))
                  ELSE points' = points
             ELSE points' = points /\ techtree' = Tree(u)]_vars

\* the first TechTree upload of a save has just brought in T2 with a cost and
\* the stored points are what they were
OnlyMergesCharge_witness ==
    /\ last.op = "upload_TechTree" /\ last.arg = {Tech2}
    /\ techtree.blocks = <<Block(Tech2, <<16>>)>>
    /\ points = Num(30)

\* every block of the upload has an id and is a block of the stored TechTree
AlreadyMerged(new_blocks) ==
    \A i \in DOMAIN new_blocks :
        /\ new_blocks[i].id # <<>>
        /\ \E j \in DOMAIN techtree.blocks : techtree.blocks[j] = new_blocks[i]

\* C16: uploading blocks that are all in the stored TechTree already changes
\* nothing: the TechTree holds the same blocks and ids after as before, and
\* the stored SciencePoints are the same after as before.
ReuploadChangesNothing ==
    [][\A u \in Uploads :
          (upload_TechTree(u) /\ techtree.st = "file" /\ u # <<>> /\ AlreadyMerged(u))
          => techtree' = techtree /\ points' = points]_vars

\* every id of the upload is an id of the stored TechTree
IdsAlreadyMerged(new_blocks) ==
    \A i \in DOMAIN new_blocks : new_blocks[i].id \in IdsOf(techtree)

\* C17: a merge that finds no SciencePoints file, or one it cannot read, still
\* appends its new blocks and answers OK, and leaves the points file as it is;
\* no later upload makes up for it: an upload whose ids are all stored takes
\* no cost off the points (it rewrites them as they are, with six decimals).
SkippedCostIsLost ==
    [][\A u \in Uploads :
          upload_TechTree(u) /\ techtree.st = "file"
          => /\ points.st # "num"
                => /\ techtree'.blocks = techtree.blocks \o SelectSeq(u, Fresh)
                   /\ points' = points
                   /\ last'.code = 200 /\ last'.body = "OK"
             /\ (points.st = "num" /\ IdsAlreadyMerged(u))
                => /\ techtree' = techtree
                   /\ points' = Num(Fmt6(Max2(0, points.v)))
                   /\ last'.code = 200 /\ last'.body = "OK"]_vars

\* a merge has just appended T2, which has a cost, while the points file
\* could not be read
SkippedCostIsLost_witness ==
    /\ last.op = "upload_TechTree" /\ last.arg = {Tech2} /\ last.code = 200
    /\ techtree.blocks = <<Block(Tech1, <<>>), Block(Tech2, <<16>>)>>
    /\ points = Garbage

-----------------------------------------------------------------------------
(* Properties of the SciencePoints upload, one request at a time *)

\* C18: a SciencePoints upload whose payload is not a number is answered
\* 400 'Invalid format' and leaves the points file as it was: missing if it
\* was missing, and with the same content otherwise.
InvalidPayloadRejected ==
    [][(last'.op = "upload_SciencePoints" /\ last'.arg.st # "num")
          => /\ last'.code = 400 /\ last'.body = "Invalid format"
             /\ points' = points]_vars

\* a payload that is not a number has just been rejected while a number was
\* stored
InvalidPayloadRejected_witness ==
    /\ last.op = "upload_SciencePoints" /\ last.arg = Garbage /\ last.code = 400
    /\ points = Num(20)

-----------------------------------------------------------------------------
(* Properties of the ScienceArchives merge, one request at a time           *)
(* (SpecArchives)                                                           *)

\* the stored blocks of an id
StoredAt(file, id) == {i \in DOMAIN file.blocks : file.blocks[i].id = id}

\* C19: after any sequence of uploads, the stored sci of every id for which a
\* sci was uploaded is the largest sci uploaded for it, lowered to the cap of
\* the id when an upload has made the cap known.
SciIsMaxUpToCap ==
    \A id \in DOMAIN uploaded :
        uploaded[id].sci # <<>>
        => /\ StoredAt(archives, id) # {}
           /\ \A i \in StoredAt(archives, id) :
                 archives.blocks[i].sci =
                     IF uploaded[id].cap # <<>>
                     THEN <<Min2(uploaded[id].sci[1], uploaded[id].cap[1])>>
                     ELSE uploaded[id].sci

\* the upload carries no cap for the id
SendsNoCap(new_blocks, id) ==
    \A i \in DOMAIN new_blocks : new_blocks[i].id = id => new_blocks[i].cap = <<>>

\* C20: a cap held by the stored block of an id is still held by it after an
\* upload that carries no cap for that id; only an upload that carries a cap
\* for the id changes the stored cap.
StoredCapIsKept ==
    [][\A id \in {SciA, SciB} :
          \A i \in StoredAt(archives, id) :
             (/\ last'.op = "upload_ScienceArchives"
              /\ archives.blocks[i].cap # <<>>
              /\ SendsNoCap(last'.arg, id))
             => /\ StoredAt(archives', id) # {}
                /\ \A j \in StoredAt(archives', id) :
                      archives'.blocks[j].cap = archives.blocks[i].cap]_vars

\* C21: an upload that repeats the upload served just before it leaves the
\* stored ScienceArchives, sci and cap of every id, as the first one left it.
RepeatedArchiveUploadIsNoOp ==
    [][(/\ last.op = "upload_ScienceArchives"
        /\ last'.op = "upload_ScienceArchives"
        /\ last'.arg = last.arg)
       => archives' = archives]_vars

\* C22: from every stored state, two uploads leave the same sci and cap for
\* every id in whichever order they are served.
ArchiveUploadsCommute ==
    \A u1, u2 \in ArchiveUploads :
        MergedArchive(MergedArchive(archives, u1), u2)
            = MergedArchive(MergedArchive(archives, u2), u1)

\* the caps an upload carries for an id
CapsSent(new_blocks, id) ==
    {new_blocks[i].cap[1] :
        i \in {j \in DOMAIN new_blocks : new_blocks[j].id = id /\ new_blocks[j].cap # <<>>}}

\* C23: the stored sci of an id never decreases from one upload to the next,
\* whatever the upload carries.
StoredSciNeverDecreases ==
    [][\A i \in DOMAIN archives.blocks :
          /\ StoredAt(archives', archives.blocks[i].id) # {}
          /\ \A j \in StoredAt(archives', archives.blocks[i].id) :
                archives'.blocks[j].sci[1] >= archives.blocks[i].sci[1]]_vars

\* C23, as amended: the stored sci of an id never decreases from one upload
\* to the next, except that an upload which carries a cap below the stored
\* sci lowers the sci to that cap.
StoredSciDecreasesOnlyToCap ==
    [][\A i \in DOMAIN archives.blocks :
          LET id == archives.blocks[i].id
              before == archives.blocks[i].sci[1]
          IN  /\ StoredAt(archives', id) # {}
              /\ \A j \in StoredAt(archives', id) :
                    LET after == archives'.blocks[j].sci[1]
                    IN  \/ after >= before
                        \/ /\ last'.op = "upload_ScienceArchives"
                           /\ after \in CapsSent(last'.arg, id)]_vars

\* an upload that carries the cap 50 has just left sci = 50 for an id for
\* which 60 had been uploaded
StoredSciDecreasesOnlyToCap_witness ==
    /\ last.op = "upload_ScienceArchives"
    /\ last.arg = <<Science(SciA, <<40>>, <<50>>)>>
    /\ archives.blocks = <<Science(SciA, <<50>>, <<>>)>>
    /\ SciA \in DOMAIN uploaded /\ uploaded[SciA].sci = <<60>>


\* the places where a Body block with a Name and a Map is written in a text,
\* and the (name, Map) pairs of these blocks
BodyPlaces(text) ==
    {j \in 1..Len(text) :
        /\ j + 8 <= Len(text)
        /\ text[j] = Word("Body")
        /\ text[j + 2] = Open
        /\ text[j + 4].t = "Name ="
        /\ text[j + 6].t = "Map ="
        /\ text[j + 8] = Close}

BodyMapsIn(text) == {<<text[i + 4].k, text[i + 6].v>> : i \in BodyPlaces(text)}

RECURSIVE BitOf(_, _)
\* bit b of the byte x
BitOf(x, b) == IF b = 0 THEN x % 2 ELSE BitOf(x \div 2, b - 1)

\* the map cells that are set in a byte array, as (byte, bit) places
CellsSet(bytes) == {c \in (1..Len(bytes)) \X (0..7) : BitOf(bytes[c[1]], c[2]) = 1}

\* the cells of body n set in the converged view of save Save1
ViewCells(store, n) ==
    UNION {CellsSet(_b64decode(p[2]).bytes) :
             p \in {q \in BodyMapsIn(_merge_scansat(store, safe_path_seg(Save1))) : q[1] = n}}

\* C24: a map cell of a body that is set in the converged view of a save is
\* still set in the converged view after any further request: no upload
\* clears a bit of the converged per-body bitmap.
ScanBitsNeverCleared ==
    [][\A n \in {BodyK, BodyM} : ViewCells(scans, n) \subseteq ViewCells(scans', n)]_vars


RECURSIVE OrAll(_, _)
\* byte i of the bitwise OR of a set of byte arrays, the shorter ones
\* extended with zero bytes
OrAll(arrays, i) ==
    IF arrays = {} THEN 0
    ELSE LET a == CHOOSE x \in arrays : TRUE
         IN  BitOr(IF i <= Len(a) THEN a[i] ELSE 0, OrAll(arrays \ {a}, i))

Longest(arrays) ==
    IF arrays = {} THEN 0
    ELSE LET a == CHOOSE x \in arrays : \A y \in arrays : Len(x) >= Len(y)
         IN  Len(a)

\* the Maps that the current snapshots of save Save1 hold for body n
MapsOfBody(store, n) ==
    UNION {{p[2] : p \in {q \in BodyMapsIn(store[k]) : q[1] = n}} :
             k \in {x \in DOMAIN store : x[1] = safe_path_seg(Save1)}}

\* C25: for every body name in a Body block of a current snapshot, the
\* converged output has exactly one Body block of that name, and when the
\* Maps of that body are valid Base64 the block's Map is their bitwise OR,
\* the shorter byte arrays extended with zero bytes.
ConvergedBodyIsUnionOfSnapshots ==
    LET out == _merge_scansat(scans, safe_path_seg(Save1))
    IN  \A n \in {BodyK, BodyM} :
          MapsOfBody(scans, n) # {} =>
            LET places == {j \in BodyPlaces(out) : out[j + 4].k = n}
                arrays == {_b64decode(m).bytes : m \in MapsOfBody(scans, n)}
            IN  /\ Cardinality(places) = 1
                /\ (\A m \in MapsOfBody(scans, n) : _b64decode(m).ok) =>
                      \A j \in places :
                         _b64decode(out[j + 6].v).bytes
                            = [i \in 1..Longest(arrays) |-> OrAll(arrays, i)]


\* the bitmap a Map text stands for: its bytes, or the text itself when it is
\* not valid Base64
BitmapOf(m) ==
    LET d == _b64decode(m)
    IN  [ok |-> d.ok, bytes |-> d.bytes, text |-> IF d.ok THEN <<>> ELSE m]

\* the per-body bitmaps of the fold of the snapshot texts, in the order given
FoldedBitmaps(texts) ==
    LET out == Canonical(FoldSnapshots(texts, [scanners |-> EmptyMap, bodies |-> EmptyMap]))
    IN  {<<p[1], BitmapOf(p[2])>> : p \in BodyMapsIn(out)}

\* C26: folding snapshot A then snapshot B gives the same bitmap for every
\* body as folding B then A, whatever the lengths of the two maps and whether
\* or not they are valid Base64.
FoldOrderIsIrrelevant ==
    \A a, b \in DOMAIN scans :
        FoldedBitmaps(<<scans[a], scans[b]>>) = FoldedBitmaps(<<scans[b], scans[a]>>)


\* C27: a SCANcontroller upload in the name of user U writes no snapshot but
\* that of U in that save: every other snapshot, of any user and any save,
\* is there before and after with the same content; an upload without a user
\* name is answered with an error and writes nothing.
ScanUploadWritesOnlyOwnSnapshot ==
    [][last'.op = "upload_SCANcontroller" =>
          /\ \A k \in DOMAIN scans \cup DOMAIN scans' :
                k # <<last'.key[1], last'.user>> =>
                    k \in DOMAIN scans /\ k \in DOMAIN scans' /\ scans'[k] = scans[k]
          /\ last'.user = NoUser => (last'.code = 400 /\ scans' = scans)]_vars

ScanUploadWritesOnlyOwnSnapshot_witness ==
    /\ last.op = "upload_SCANcontroller"
    /\ last.code = 200 /\ last.body = "OK"
    /\ last.key = <<Save1>> /\ last.user = UserB
    /\ <<Save1, UserA>> \in DOMAIN scans
    /\ <<Save2, UserB>> \in DOMAIN scans
    /\ scans[<<Save1, UserA>>] # scans[<<Save1, UserB>>]
    /\ scans[<<Save2, UserB>>] # scans[<<Save1, UserB>>]


\* C28: a read of SCANcontroller returns the converged view of the save:
\* every map cell set in the current snapshot of any user of the save is set
\* in the text the reader gets back, whoever the reader is.
ReadReturnsEveryUsersCoverage ==
    (last.op = "download_SCANcontroller" /\ last.code = 200) =>
        \A k \in {x \in DOMAIN scans : x[1] = last.key[1]} :
            \A p \in BodyMapsIn(scans[k]) :
                \E q \in BodyMapsIn(last.body) :
                    /\ q[1] = p[1]
                    /\ CellsSet(_b64decode(p[2]).bytes) \subseteq CellsSet(_b64decode(q[2]).bytes)


\* what a snapshot text says inside its wrapper: the lines between the braces
\* of a bare SCANcontroller node, or those of a SCENARIO node after its
\* name and scene lines
ScanContentOf(text) ==
    IF text[1] = Word("SCANcontroller")
    THEN SubSeq(text, 5, Len(text) - 1)
    ELSE SubSeq(text, 10, Len(text) - 1)

\* C29: when a user's upload follows an upload of theirs to the same save,
\* it returns UNCHANGED and leaves the snapshots as they are if the two say
\* the same inside their wrappers (bare node or SCENARIO node), and
\* otherwise returns OK and stores its content as a bare SCANcontroller node.
SameScanUploadIsUnchanged ==
    [][(/\ last.op = "upload_SCANcontroller" /\ last.code = 200
        /\ last'.op = "upload_SCANcontroller" /\ last'.code = 200
        /\ last'.key = last.key /\ last'.user = last.user)
       => IF ScanContentOf(last'.arg) = ScanContentOf(last.arg)
          THEN last'.body = "UNCHANGED" /\ scans' = scans
          ELSE /\ last'.body = "OK"
               /\ scans'[<<last'.key[1], last'.user>>]
                     = Node(ScanContentOf(last'.arg)) \o <<NL>>]_vars


\* the place of the brace that closes the brace at place j: the first place
\* from which back to j there are as many closing as opening braces
ClosingOf(text, j) ==
    LET balanced == {k \in j..Len(text) :
                       Cardinality({x \in j..k : text[x] = Open})
                         = Cardinality({x \in j..k : text[x] = Close})}
    IN  CHOOSE k \in balanced : \A y \in balanced : k <= y

\* the block that starts with the header at place i
WholeBlockAt(text, i) ==
    LET j == CHOOSE x \in i..Len(text) : text[x] = Open /\ \A y \in i..x : text[y] = Open => y = x
    IN  SubSeq(text, i, ClosingOf(text, j))

\* the blocks of header keyword h in a text, in the order of the text
RECURSIVE WholeBlocksFrom(_, _, _)
WholeBlocksFrom(text, h, i) ==
    IF i > Len(text) THEN <<>>
    ELSE IF text[i] = Word(h) THEN <<WholeBlockAt(text, i)>> \o WholeBlocksFrom(text, h, i + 1)
    ELSE WholeBlocksFrom(text, h, i + 1)

Range(f) == {f[x] : x \in DOMAIN f}

\* C30: block extraction returns every block from its header to the brace
\* that closes its opening brace, nested brace pairs included: the Tech
\* blocks and Science blocks of an upload, the first SCANcontroller or
\* SCENARIO block, and the Vessel and Body blocks.
BlocksEndAtMatchingBrace ==
    /\ last.op = "extract_tech_blocks" => last.body = WholeBlocksFrom(last.arg, "Tech", 1)
    /\ last.op = "extract_science_blocks" => last.body = WholeBlocksFrom(last.arg, "Science", 1)
    /\ last.op = "_find_block_at" =>
          last.body.found /\ last.body.blk = WholeBlocksFrom(last.arg, last.key[1], 1)[1]
    /\ last.op = "_blocks_by" =>
          Range(last.body) = Range(WholeBlocksFrom(last.arg, last.key[1], 1))


\* C31: a valid SciencePoints upload that finds no SciencePoints.txt, or one
\* whose value cannot be parsed, is stored whatever its value: afterwards
\* the stored value is the uploaded value.
FirstUploadStoredAsIs ==
    [][(/\ last'.op = "upload_SciencePoints" /\ last'.code = 200
        /\ points.st \in {"absent", "bad"})
       => points' = [st |-> "num", v |-> last'.arg.v]]_vars

FirstUploadStoredAsIs_witness ==
    /\ last.op = "upload_SciencePoints" /\ last.code = 200
    /\ last.arg.v = -8
    /\ points = [st |-> "num", v |-> -8]


\* the places where a Vessel block with a guid and a state line is written
VesselPlaces(text) ==
    {j \in 1..Len(text) :
        /\ j + 8 <= Len(text)
        /\ text[j] = Word("Vessel")
        /\ text[j + 2] = Open
        /\ text[j + 4].t = "guid ="
        /\ text[j + 6].t = "state ="
        /\ text[j + 8] = Close}

\* the places of the Vessel blocks of guid g in a text
VesselsOf(text, g) == {j \in VesselPlaces(text) : text[j + 4].k = g}

\* the users of save Save1 whose snapshot holds a Vessel block of guid g
HoldersOf(store, g) ==
    {k[2] : k \in {x \in DOMAIN store :
                      x[1] = safe_path_seg(Save1) /\ VesselsOf(store[x], g) # {}}}

\* C32: every guid of a Vessel block in a snapshot of the save has exactly
\* one Vessel block in the converged scanner list, and that block is the one
\* of the snapshot folded last, in the order of the snapshot files, among
\* the snapshots that hold the guid.
LastSnapshotWinsPerGuid ==
    LET out == _merge_scansat(scans, safe_path_seg(Save1))
    IN  \A g \in {Guid1, Guid2} :
          HoldersOf(scans, g) # {} =>
            LET u == CHOOSE x \in HoldersOf(scans, g) :
                        \A y \in HoldersOf(scans, g) \ {x} : LexLess(y, x)
                snap == scans[<<safe_path_seg(Save1), u>>]
                from == CHOOSE j \in VesselsOf(snap, g) : \A i \in VesselsOf(snap, g) : i <= j
            IN  /\ Cardinality(VesselsOf(out, g)) = 1
                /\ \A j \in VesselsOf(out, g) : out[j + 6] = snap[from + 6]


\* the place of a science id in the order of the ids
IdRank(id) == IF id = SciA THEN 1 ELSE IF id = SciB THEN 2 ELSE 3

\* the ids that the blocks of an upload name
IdsSent(new_blocks) == {new_blocks[i].id : i \in DOMAIN new_blocks}

\* C33: after a ScienceArchives upload the stored blocks are in strictly
\* ascending id order (so no id has two blocks), every id stored before is
\* still stored, and the block of an id the upload does not name has the sci
\* and cap it had.
ArchiveKeepsOneSortedBlockPerId ==
    [][last'.op = "upload_ScienceArchives" =>
          /\ \A i, j \in DOMAIN archives'.blocks :
                i < j => IdRank(archives'.blocks[i].id) < IdRank(archives'.blocks[j].id)
          /\ \A i \in DOMAIN archives.blocks :
                LET b == archives.blocks[i]
                IN  /\ StoredAt(archives', b.id) # {}
                    /\ b.id \notin IdsSent(last'.arg) =>
                          \A j \in StoredAt(archives', b.id) :
                              /\ archives'.blocks[j].sci = b.sci
                              /\ archives'.blocks[j].cap = b.cap]_vars

ArchiveKeepsOneSortedBlockPerId_witness ==
    /\ last.op = "upload_ScienceArchives"
    /\ last.arg = <<Science(SciA, <<60>>, <<>>)>>
    /\ Len(archives.blocks) = 2
    /\ archives.blocks[1].id = SciA
    /\ archives.blocks[2] = Science(SciB, <<40>>, <<>>)


-----------------------------------------------------------------------------
(* Further properties of the vote coordinator, one request at a time (Spec) *)

\* C34: a cast by a user who already has a ballot in the open session
\* replaces that ballot and adds no voter: the ballots are those of the same
\* users as before, the other ballots are as they were, and the session stays
\* open; and a cast that closes a session sets approved from the one ballot
\* each voter holds then, the caller's being the one just cast.
RepeatedCastOverwrites ==
    [][\A k \in DOMAIN VOTES :
          (last'.op = "cast" /\ last'.code = 200 /\ last'.key = k)
          => LET v == VOTES[k]
                 w == VOTES'[k]
                 u == last'.user
                 latest == [x \in Ballots(v) \cup {u} |->
                               IF x = u THEN last'.arg[1] ELSE v.votes[x]]
                 yeses == Cardinality({x \in DOMAIN latest : latest[x]})
             IN  /\ u \in Ballots(v)
                    => /\ Cardinality(Ballots(w)) = Cardinality(Ballots(v))
                       /\ w.votes = latest
                       /\ ~w.closed
                 /\ (v.quorum = 2 /\ Ballots(v) \subseteq {u}) => ~w.closed
                 /\ w.closed
                    => w.approved = PyBool(2 * yeses > Cardinality(DOMAIN latest))]_vars

\* a user has just cast again, turning a yes into a no, and the session of
\* quorum 2 is still open with that one ballot
RepeatedCastOverwrites_witness ==
    /\ last.op = "cast" /\ last.code = 200 /\ last.arg = <<FALSE>>
    /\ HasSession(last.key)
    /\ LET v == VOTES[last.key]
       IN  /\ v.quorum = 2 /\ ~v.closed
           /\ v.votes = [x \in {last.user} |-> FALSE]
    /\ \E k \in DOMAIN VOTES :
          VOTES[k].closed /\ Cardinality(Ballots(VOTES[k])) = 2 /\ VOTES[k].approved = "True"

\* C35: an open session has approved unknown and fewer ballots than its
\* quorum; a closed session has approved true or false.
OpenBelowQuorumClosedDecided ==
    \A k \in DOMAIN VOTES :
        IF VOTES[k].closed
        THEN VOTES[k].approved \in {"True", "False"}
        ELSE /\ VOTES[k].approved = "None"
             /\ Cardinality(Ballots(VOTES[k])) < VOTES[k].quorum

\* one session is open with one ballot, one was closed by a cancel without
\* ballots, one was closed by the casts
OpenBelowQuorumClosedDecided_witness ==
    /\ \E k \in DOMAIN VOTES : ~VOTES[k].closed /\ Cardinality(Ballots(VOTES[k])) = 1
    /\ \E k \in DOMAIN VOTES :
          VOTES[k].closed /\ Ballots(VOTES[k]) = {} /\ VOTES[k].approved = "False"
    /\ last.op = "cancel"

\* C36: no request other than a start on the key changes the quorum of a
\* session, whatever happens to the presence table; a start with at most one
\* user online gives quorum 1; and a cast accepted on a session of quorum 1
\* closes it, however many users are online at the cast.
QuorumFixedAtStart ==
    [][/\ \A k \in DOMAIN VOTES :
             ~(last'.op = "start" /\ last'.key = k)
             => k \in DOMAIN VOTES' /\ VOTES'[k].quorum = VOTES[k].quorum
       /\ (last'.op = "start" /\ OnlineCount <= 1) => VOTES'[last'.key].quorum = 1
       /\ \A k \in DOMAIN VOTES :
             (last'.op = "cast" /\ last'.code = 200 /\ last'.key = k
                /\ VOTES[k].quorum = 1)
             => VOTES'[k].closed /\ Ballots(VOTES'[k]) = {last'.user}]_vars

\* the first cast has just closed a session of quorum 1 with two users online
QuorumFixedAtStart_witness ==
    /\ last.op = "cast" /\ last.code = 200
    /\ OnlineCount = 2
    /\ HasSession(last.key)
    /\ LET v == VOTES[last.key]
       IN  v.quorum = 1 /\ v.closed /\ Ballots(v) = {last.user}

\* C37: a start on a key that has a session, open or closed, leaves in its
\* place a session without ballots, open, approved unknown, requested by the
\* caller, with the quorum of the users online now; the sessions of the other
\* keys are as they were and no key is added or removed.
StartReplacesSession ==
    [][\A k \in DOMAIN VOTES :
          (last'.op = "start" /\ last'.key = k)
          => /\ VOTES'[k] = [requester |-> last'.user, votes |-> EmptyMap,
                             closed |-> FALSE, approved |-> "None",
                             quorum |-> IF OnlineCount >= 2 THEN 2 ELSE 1]
             /\ DOMAIN VOTES' = DOMAIN VOTES
             /\ \A o \in DOMAIN VOTES \ {k} : VOTES'[o] = VOTES[o]]_vars

\* a start by another caller has just left a fresh session of quorum 2 beside
\* a closed session that holds two ballots
StartReplacesSession_witness ==
    /\ last.op = "start" /\ last.user = UserBpad
    /\ LET w == VOTES[last.key]
       IN  w.requester = UserBpad /\ Ballots(w) = {} /\ ~w.closed /\ w.quorum = 2
    /\ \E o \in DOMAIN VOTES \ {last.key} :
          VOTES[o].closed /\ Cardinality(Ballots(VOTES[o])) = 2


-----------------------------------------------------------------------------
(* Properties of the SciencePoints read (SpecRead) *)

\* the sum of f over the places of a sequence
RECURSIVE SumAt(_, _)
SumAt(f, places) ==
    IF places = {} THEN 0
    ELSE LET i == CHOOSE x \in places : TRUE
         IN  f[i] + SumAt(f, places \ {i})

SciAt(file) == [i \in DOMAIN file.blocks |->
                  IF file.blocks[i].sci = <<>> THEN 0 ELSE file.blocks[i].sci[1]]
CostAt(file) == [i \in DOMAIN file.blocks |->
                   IF file.blocks[i].cost = <<>> THEN 0 ELSE file.blocks[i].cost[1]]

\* C38: a read of SciencePoints answers 200 with the sci values of the save's
\* ScienceArchives summed, less the cost values of its TechTree summed, not
\* below zero, written with six decimals; it changes no file, and the stored
\* SciencePoints value has no part in the answer.
ReadDerivesPointsFromArchives ==
    [][last'.op = "download_SciencePoints"
          => LET science == SumAt(SciAt(archives), DOMAIN archives.blocks)
                 cost == SumAt(CostAt(techtree), DOMAIN techtree.blocks)
                 balance == IF science > cost THEN science - cost ELSE 0
             IN  /\ last'.code = 200
                 /\ last'.body = ((balance + 5) \div 10) * 10
                 /\ <<points, archives, techtree>>' = <<points, archives, techtree>>]_vars

\* a read has just answered 50 (60 of science less a cost of 10) while
\* SciencePoints.txt holds another number
ReadDerivesPointsFromArchives_witness ==
    /\ last.op = "download_SciencePoints" /\ last.body = 50
    /\ points.st = "num" /\ points.v # 50
    /\ Len(techtree.blocks) >= 2


-----------------------------------------------------------------------------
(* Properties of the modules without a branch (SpecOther) *)

\* the module name as the handlers use it, without its blanks
NoBlanks(name) == SelectSeq(name, LAMBDA c : c # " ")

FourModules ==
    {<<"S", "c", "i", "e", "n", "c", "e", "P", "o", "i", "n", "t", "s">>,
     <<"T", "e", "c", "h", "T", "r", "e", "e">>,
     <<"S", "c", "i", "e", "n", "c", "e", "A", "r", "c", "h", "i", "v", "e", "s">>,
     <<"S", "C", "A", "N", "c", "o", "n", "t", "r", "o", "l", "l", "e", "r">>}

\* C39: an upload to a module whose name is none of SciencePoints, TechTree,
\* ScienceArchives and SCANcontroller is answered 200 'OK' and changes no
\* file, vote session or presence entry; and a read of such a module is
\* answered 404 'Scenario not found', whatever was uploaded before.
UnknownModuleUploadIsNoOp ==
    /\ [][(last'.op = "upload_scenario" /\ NoBlanks(last'.key[2]) \notin FourModules)
          => /\ last'.code = 200 /\ last'.body = "OK"
             /\ <<points, techtree, archives, scans, others, VOTES, PRESENCE>>'
                   = <<points, techtree, archives, scans, others, VOTES, PRESENCE>>]_vars
    /\ []((last.op = "download_scenario" /\ NoBlanks(last.key[2]) \notin FourModules)
          => last.code = 404 /\ last.body = "Scenario not found")

\* an upload to the module Parts has just been answered OK on a save that
\* holds SciencePoints, a TechTree and ScienceArchives
UnknownModuleUploadIsNoOp_witness ==
    /\ last.op = "upload_scenario" /\ last.code = 200
    /\ last.key[2] = Parts /\ last.arg = <<"a">>
    /\ points.st = "num" /\ Exists(techtree) /\ Exists(archives)

=============================================================================
